---- MODULE Spec2Model ----
\* Verification model of safe-gh: the permission engine (permissions.ts),
\* the issue-only rule engine (conditions.ts) and the command pipelines
\* that guard every gh call.
EXTENDS Integers, Sequences, FiniteSets, TLC

VARIABLES
    branch,      \* matchBranchPattern: the branch argument (sequence of characters)
    pattern,     \* matchBranchPattern: the pattern argument (sequence of characters)
    matched,     \* matchBranchPattern: <<>> before the call, <<result>> after it
    config,      \* Config handed to the engine
    resource,    \* ResourceType of the request
    operation,   \* operation name of the request
    context,     \* OperationContext of the request
    result,      \* PermissionCheckResult: <<>> before checkPermission, <<decision>> after
    condition,   \* condition handed to checkConditionForResource
    met,         \* <<>> before the condition is evaluated, <<boolean>> after
    cmd,         \* the command line: family, resource and subcommand
    args,        \* its options: -R repo, --owner
    dryRun,      \* dryRunEnabled of gh.ts
    remote,      \* what the platform holds for the targeted issue / PR
    resolved,    \* the repo resolveRepo returned: <<>> before, <<repo>> after
    pc,          \* position of the command's action handler
    calls,       \* the gh subprocesses started so far, in order
    output,      \* the JSON payloads printed so far, in order
    exitCode     \* <<>> while running, <<status>> once the process has ended

branchVars == <<branch, pattern, matched>>
permVars == <<config, resource, operation, context, result>>
condVars == <<condition, met>>
cmdVars == <<cmd, args, dryRun, remote, resolved, pc, calls, output, exitCode>>
vars == <<branch, pattern, matched, config, resource, operation, context, result,
          condition, met, cmd, args, dryRun, remote, resolved, pc, calls, output, exitCode>>

\* ------------------------------------------------------------------
\* Values
\* ------------------------------------------------------------------

\* An optional value: <<>> is undefined, <<v>> is the value v.
None == <<>>
Some(v) == <<v>>
IsSome(o) == Len(o) > 0
Get(o) == o[1]

\* Strings that the code splits or matches are sequences of characters.
MaxLen == 3
Strings(alphabet, n) == UNION {[1..k -> alphabet] : k \in 0..n}
Includes(s, x) == \E i \in 1..Len(s) : s[i] = x

\* ------------------------------------------------------------------
\* matchBranchPattern (permissions.ts)
\* ------------------------------------------------------------------

\* pattern.replace(/\*/g, ".*")
RECURSIVE ReplaceStar(_)
ReplaceStar(p) ==
    IF p = <<>> THEN <<>>
    ELSE (IF Head(p) = "*" THEN <<".", "*">> ELSE <<Head(p)>>) \o ReplaceStar(Tail(p))

\* One regular-expression atom against one character: "." is any character,
\* every other character of the modelled alphabet is a literal.
AtomMatches(a, c) == a = "." \/ a = c

\* Match of the regular-expression body re against the whole of s.
RECURSIVE RegExpBody(_, _)
RegExpBody(re, s) ==
    IF re = <<>> THEN s = <<>>
    ELSE IF Len(re) >= 2 /\ re[2] = "*"
         THEN \E k \in 0..Len(s) :
                 /\ \A i \in 1..k : AtomMatches(re[1], s[i])
                 /\ RegExpBody(SubSeq(re, 3, Len(re)), SubSeq(s, k + 1, Len(s)))
         ELSE /\ s # <<>>
              /\ AtomMatches(re[1], s[1])
              /\ RegExpBody(Tail(re), Tail(s))

\* new RegExp(src).test(s) for a source of the form "^" body "$"
RegExpTest(src, s) ==
    /\ Head(src) = "^"
    /\ src[Len(src)] = "$"
    /\ RegExpBody(SubSeq(src, 2, Len(src) - 1), s)

matchBranchPattern(b, p) ==
    IF ~Includes(p, "*") THEN b = p
    ELSE RegExpTest(<<"^">> \o ReplaceStar(p) \o <<"$">>, b)

\* ------------------------------------------------------------------
\* Values of the permission engine (types.ts)
\* ------------------------------------------------------------------

\* undefined for the fields whose values are atomic strings
Undef == "<undefined>"
\* JavaScript truthiness of a string | undefined
Truthy(str) == str # Undef /\ str # ""
\* JavaScript truthiness of an optional character string
TruthyS(o) == IsSome(o) /\ Get(o) # <<>>
\* x && x.length > 0 for an optional array
NonEmptyList(o) == IsSome(o) /\ Len(Get(o)) > 0
\* x ?? []
OrEmpty(o) == IF IsSome(o) THEN Get(o) ELSE <<>>

\* s.split("/")[0]
RECURSIVE FirstSegment(_)
FirstSegment(s) ==
    IF s = <<>> \/ Head(s) = "/" THEN <<>>
    ELSE <<Head(s)>> \o FirstSegment(Tail(s))

\* list.join(sep) for a list of character strings
RECURSIVE Join(_, _)
Join(list, sep) ==
    IF list = <<>> THEN <<>>
    ELSE IF Len(list) = 1 THEN Head(list)
    ELSE Head(list) \o sep \o Join(Tail(list), sep)

IssueOperationValues ==
    <<"list", "view", "list:comments", "create", "update", "close", "reopen",
      "delete", "comment", "comment:edit", "comment:delete">>
PrOperationValues ==
    <<"list", "view", "diff", "checks", "list:comments", "create", "update",
      "close", "reopen", "merge", "review", "update-branch", "comment",
      "comment:edit", "comment:delete">>
SearchOperationValues == <<"code", "issues", "prs", "repos", "commits">>
ProjectOperationValues ==
    <<"list", "view", "field:list", "item:list", "create", "edit", "close",
      "delete", "item:add", "item:create", "item:edit", "item:delete",
      "item:archive", "field:create", "field:delete">>
ResourceTypes == {"issue", "pr", "search", "project"}
OperationValues(res) ==
    CASE res = "issue" -> IssueOperationValues
      [] res = "pr" -> PrOperationValues
      [] res = "search" -> SearchOperationValues
      [] res = "project" -> ProjectOperationValues

\* OperationContext with every field undefined
EmptyContext ==
    [repo |-> None, issueNumber |-> None, issueAuthor |-> Undef,
     prNumber |-> None, prAuthor |-> Undef, labels |-> None, assignees |-> None,
     draft |-> None, baseBranch |-> None, headBranch |-> None,
     reviewDecision |-> Undef, projectNumber |-> None, projectOwner |-> None]

\* A condition object with every key absent (IssueCondition, PrCondition,
\* SearchCondition and ProjectCondition share this record; a resource's
\* schema only ever sets its own keys)
EmptyCondition ==
    [createdBy |-> Undef, assignee |-> Undef, labels |-> None, repos |-> None,
     owners |-> None, draft |-> None, baseBranch |-> None, headBranch |-> None,
     reviewDecision |-> Undef, owner |-> None, projectNumbers |-> None]

\* The Config the schema produces from an empty file, with no allowedOwners
Config0 ==
    [issueRules |-> <<>>, prRules |-> <<>>, searchRules |-> <<>>,
     projectRules |-> <<>>, selfUserId |-> Undef, defaultPermission |-> "deny",
     allowedOwners |-> None]

\* ------------------------------------------------------------------
\* Condition checkers (permissions.ts)
\* ------------------------------------------------------------------

\* createdBy: the condition asks for "self" and the check returns false
CreatedByRejects_NoSelfGuard(c, ctx, selfUserId) ==
    LET author == IF ctx.issueAuthor # Undef THEN ctx.issueAuthor ELSE ctx.prAuthor
    IN  c.createdBy = "self" /\ author # selfUserId

CreatedByRejects(c, ctx, selfUserId) ==
    LET author == IF ctx.issueAuthor # Undef THEN ctx.issueAuthor ELSE ctx.prAuthor
    IN  /\ c.createdBy = "self"
        /\ \/ ~Truthy(selfUserId) \/ ~Truthy(author)
           \/ author # selfUserId

\* assignee: the condition asks for "self" and the check returns false
AssigneeRejects(c, ctx, selfUserId) ==
    LET assignees == OrEmpty(ctx.assignees)
    IN  /\ c.assignee = "self"
        /\ \/ ~Truthy(selfUserId)
           \/ ~Includes(assignees, selfUserId)

\* labels: include has no label of the context, or exclude has one
LabelsReject(c, ctx) ==
    LET contextLabels == OrEmpty(ctx.labels)
    IN  /\ IsSome(c.labels)
        /\ \/ /\ NonEmptyList(Get(c.labels).include)
              /\ ~\E i \in 1..Len(Get(Get(c.labels).include)) :
                     Includes(contextLabels, Get(Get(c.labels).include)[i])
           \/ /\ NonEmptyList(Get(c.labels).exclude)
              /\ \E i \in 1..Len(Get(Get(c.labels).exclude)) :
                     Includes(contextLabels, Get(Get(c.labels).exclude)[i])

ReposReject_SkipsMissingRepo(c, ctx) ==
    /\ NonEmptyList(c.repos)
    /\ TruthyS(ctx.repo)
    /\ ~Includes(Get(c.repos), Get(ctx.repo))

\* repos: the context has no repo or it is not listed
ReposReject(c, ctx) ==
    /\ NonEmptyList(c.repos)
    /\ \/ ~TruthyS(ctx.repo)
       \/ ~Includes(Get(c.repos), Get(ctx.repo))

\* owners: the context has no repo, or its first path segment is empty or not listed
OwnersReject_WholeRepo(c, ctx) ==
    /\ NonEmptyList(c.owners)
    /\ \/ ~TruthyS(ctx.repo)
       \/ ~Includes(Get(c.owners), Get(ctx.repo))

OwnersReject(c, ctx) ==
    /\ NonEmptyList(c.owners)
    /\ \/ ~TruthyS(ctx.repo)
       \/ FirstSegment(Get(ctx.repo)) = <<>>
       \/ ~Includes(Get(c.owners), FirstSegment(Get(ctx.repo)))

checkCommonCondition(c, ctx, selfUserId) ==
    IF CreatedByRejects(c, ctx, selfUserId) THEN FALSE
    ELSE IF AssigneeRejects(c, ctx, selfUserId) THEN FALSE
    ELSE IF LabelsReject(c, ctx) THEN FALSE
    ELSE IF ReposReject(c, ctx) THEN FALSE
    ELSE IF OwnersReject(c, ctx) THEN FALSE
    ELSE TRUE

checkPrCondition(c, ctx, selfUserId) ==
    IF ~checkCommonCondition(c, ctx, selfUserId) THEN FALSE
    ELSE IF IsSome(c.draft) /\ ~IsSome(ctx.draft) THEN FALSE
    ELSE IF IsSome(c.draft) /\ Get(ctx.draft) # Get(c.draft) THEN FALSE
    ELSE IF NonEmptyList(c.baseBranch) /\ ~TruthyS(ctx.baseBranch) THEN FALSE
    ELSE IF /\ NonEmptyList(c.baseBranch)
            /\ ~\E i \in 1..Len(Get(c.baseBranch)) :
                   matchBranchPattern(Get(ctx.baseBranch), Get(c.baseBranch)[i])
         THEN FALSE
    ELSE IF NonEmptyList(c.headBranch) /\ ~TruthyS(ctx.headBranch) THEN FALSE
    ELSE IF /\ NonEmptyList(c.headBranch)
            /\ ~\E i \in 1..Len(Get(c.headBranch)) :
                   matchBranchPattern(Get(ctx.headBranch), Get(c.headBranch)[i])
         THEN FALSE
    ELSE IF c.reviewDecision # Undef /\ ctx.reviewDecision # c.reviewDecision THEN FALSE
    ELSE TRUE

checkSearchCondition(c, ctx) ==
    IF NonEmptyList(c.repos) /\ ~TruthyS(ctx.repo) THEN FALSE
    ELSE IF NonEmptyList(c.repos) /\ ~Includes(Get(c.repos), Get(ctx.repo)) THEN FALSE
    ELSE IF NonEmptyList(c.owners) /\ ~TruthyS(ctx.repo) THEN FALSE
    ELSE IF /\ NonEmptyList(c.owners)
            /\ \/ FirstSegment(Get(ctx.repo)) = <<>>
               \/ ~Includes(Get(c.owners), FirstSegment(Get(ctx.repo)))
         THEN FALSE
    ELSE TRUE

checkProjectCondition(c, ctx) ==
    IF NonEmptyList(c.owner) /\ ~TruthyS(ctx.projectOwner) THEN FALSE
    ELSE IF NonEmptyList(c.owner) /\ ~Includes(Get(c.owner), Get(ctx.projectOwner)) THEN FALSE
    ELSE IF NonEmptyList(c.projectNumbers) /\ ~IsSome(ctx.projectNumber) THEN FALSE
    ELSE IF /\ NonEmptyList(c.projectNumbers)
            /\ ~Includes(Get(c.projectNumbers), Get(ctx.projectNumber))
         THEN FALSE
    ELSE TRUE

checkConditionForResource(res, c, ctx, selfUserId) ==
    CASE res = "issue" -> checkCommonCondition(c, ctx, selfUserId)
      [] res = "pr" -> checkPrCondition(c, ctx, selfUserId)
      [] res = "search" -> checkSearchCondition(c, ctx)
      [] res = "project" -> checkProjectCondition(c, ctx)

\* ------------------------------------------------------------------
\* Global allowedOwners check and rule matching (permissions.ts)
\* ------------------------------------------------------------------

\* A PermissionCheckResult; reason is the message as a sequence of text
\* pieces, the interpolated owner strings spliced in character by character.
Decision(allowed, ruleName, reason) ==
    [allowed |-> allowed, ruleName |-> ruleName, reason |-> reason]

RepoRequiredReason ==
    <<"Repository must be specified with ", "-R owner/repo",
      " when allowedOwners is configured">>
OwnerBlockedReason(owner, allowedOwners) ==
    <<"Blocked by global allowedOwners: owner '">> \o owner \o <<"' is not in [">>
        \o Join(allowedOwners, <<", ">>) \o <<"]">>

\* The owner the gate derives, or <<>> when it derives none; evaluated only
\* on the paths that reach the membership test.
GateOwner(res, ctx) ==
    IF res = "project" THEN Get(ctx.projectOwner)
    ELSE FirstSegment(Get(ctx.repo))

\* Returns <<>> for null (no objection) or <<decision>>.
checkAllowedOwners_SkipsMissingRepo(cfg, res, ctx) ==
    IF ~NonEmptyList(cfg.allowedOwners) THEN None
    ELSE IF res = "project" /\ ~TruthyS(ctx.projectOwner) THEN None
    ELSE IF res # "project" /\ ~TruthyS(ctx.repo) THEN None
    ELSE IF GateOwner(res, ctx) = <<>> THEN None
    ELSE IF ~Includes(Get(cfg.allowedOwners), GateOwner(res, ctx))
         THEN Some(Decision(FALSE, Undef,
                            OwnerBlockedReason(GateOwner(res, ctx), Get(cfg.allowedOwners))))
    ELSE None

checkAllowedOwners(cfg, res, ctx) ==
    IF ~NonEmptyList(cfg.allowedOwners) THEN None
    ELSE IF res = "project" /\ ~TruthyS(ctx.projectOwner) THEN None
    ELSE IF res = "search" /\ ~TruthyS(ctx.repo) THEN None
    ELSE IF res \notin {"project", "search"} /\ ~TruthyS(ctx.repo)
         THEN Some(Decision(FALSE, Undef, RepoRequiredReason))
    ELSE IF GateOwner(res, ctx) = <<>> THEN None
    ELSE IF ~Includes(Get(cfg.allowedOwners), GateOwner(res, ctx))
         THEN Some(Decision(FALSE, Undef,
                            OwnerBlockedReason(GateOwner(res, ctx), Get(cfg.allowedOwners))))
    ELSE None

getRulesForResource_AllLists(cfg, res) ==
    CASE res = "issue" -> cfg.issueRules \o cfg.prRules \o cfg.projectRules
      [] res = "pr" -> cfg.prRules \o cfg.issueRules \o cfg.projectRules
      [] res = "search" -> cfg.searchRules
      [] res = "project" -> cfg.projectRules \o cfg.issueRules \o cfg.prRules

getRulesForResource(cfg, res) ==
    CASE res = "issue" -> cfg.issueRules
      [] res = "pr" -> cfg.prRules
      [] res = "search" -> cfg.searchRules
      [] res = "project" -> cfg.projectRules

readOperations ==
    <<"list", "view", "list:comments", "diff", "checks", "field:list", "item:list">>

RECURSIVE MatchRules_LastWins(_, _, _, _, _, _)
MatchRules_LastWins(rules, i, cfg, res, op, ctx) ==
    IF i > Len(rules) THEN None
    ELSE IF IsSome(MatchRules_LastWins(rules, i + 1, cfg, res, op, ctx))
         THEN MatchRules_LastWins(rules, i + 1, cfg, res, op, ctx)
    ELSE IF ~Includes(rules[i].operations, op) THEN None
    ELSE IF /\ IsSome(rules[i].condition)
            /\ ~checkConditionForResource(res, Get(rules[i].condition), ctx, cfg.selfUserId)
         THEN None
    ELSE Some(Decision(TRUE, rules[i].name,
                       <<"Allowed by rule '", rules[i].name, "'">>))

\* The for loop of checkPermission from rule i on: <<decision>> of the first
\* rule that passes both tests, <<>> when the loop falls through.
RECURSIVE MatchRules(_, _, _, _, _, _)
MatchRules(rules, i, cfg, res, op, ctx) ==
    IF i > Len(rules) THEN None
    ELSE IF ~Includes(rules[i].operations, op)
         THEN MatchRules(rules, i + 1, cfg, res, op, ctx)
    ELSE IF /\ IsSome(rules[i].condition)
            /\ ~checkConditionForResource(res, Get(rules[i].condition), ctx, cfg.selfUserId)
         THEN MatchRules(rules, i + 1, cfg, res, op, ctx)
    ELSE Some(Decision(TRUE, rules[i].name,
                       <<"Allowed by rule '", rules[i].name, "'">>))

\* The default permission fallback of checkPermission
DefaultDecision_IgnoresSetting(cfg, op) ==
    IF Includes(readOperations, op)
    THEN Decision(TRUE, Undef, <<"Allowed by default read permission">>)
    ELSE Decision(FALSE, Undef, <<"No matching rule and default permission is deny">>)

DefaultDecision(cfg, op) ==
    IF cfg.defaultPermission = "read" /\ Includes(readOperations, op)
    THEN Decision(TRUE, Undef, <<"Allowed by default read permission">>)
    ELSE Decision(FALSE, Undef, <<"No matching rule and default permission is deny">>)

checkPermission_OwnerPassAllows(cfg, res, op, ctx) ==
    LET ownerBlock == checkAllowedOwners(cfg, res, ctx)
        byRule == MatchRules(getRulesForResource(cfg, res), 1, cfg, res, op, ctx)
    IN  IF IsSome(ownerBlock) THEN Get(ownerBlock)
        ELSE IF NonEmptyList(cfg.allowedOwners)
             THEN Decision(TRUE, Undef, <<"Allowed by allowedOwners">>)
        ELSE IF IsSome(byRule) THEN Get(byRule)
        ELSE DefaultDecision(cfg, op)

checkPermission(cfg, res, op, ctx) ==
    LET ownerBlock == checkAllowedOwners(cfg, res, ctx)
        byRule == MatchRules(getRulesForResource(cfg, res), 1, cfg, res, op, ctx)
    IN  IF IsSome(ownerBlock) THEN Get(ownerBlock)
        ELSE IF IsSome(byRule) THEN Get(byRule)
        ELSE DefaultDecision(cfg, op)

operationNeedsContext_NoCommentEdit(res, op) ==
    IF res = "issue"
    THEN op \in {"update", "close", "reopen", "delete", "comment", "comment:delete"}
    ELSE IF res = "pr"
    THEN op \in {"update", "close", "reopen", "merge", "review", "update-branch",
                 "comment", "comment:delete"}
    ELSE FALSE

operationNeedsContext(res, op) ==
    IF res = "issue"
    THEN op \in {"update", "close", "reopen", "delete", "comment", "comment:edit",
                 "comment:delete"}
    ELSE IF res = "pr"
    THEN op \in {"update", "close", "reopen", "merge", "review", "update-branch",
                 "comment", "comment:edit", "comment:delete"}
    ELSE FALSE

\* ------------------------------------------------------------------
\* The issue rule engine (conditions.ts)
\* ------------------------------------------------------------------

\* IssueContext: repo, issueAuthor, labels and assignees are always set by
\* the command layer; the title and the parent fields are optional.
IssueContext(repo, issueNumber, issueAuthor, labels, assignees) ==
    [repo |-> repo, issueNumber |-> issueNumber, issueAuthor |-> issueAuthor,
     labels |-> labels, assignees |-> assignees, issueTitle |-> None,
     parentIssueNumber |-> None, parentIssueAssignees |-> None,
     parentIssueLabels |-> None, parentIssueTitle |-> None]

\* An IssueCondition of conditions.ts with every key absent
EmptyIssueCondition ==
    [createdBy |-> Undef, assignee |-> Undef, labels |-> None, repos |-> None,
     owners |-> None, titlePrefix |-> None, parentIssue |-> None]

\* s.startsWith(prefix)
StartsWith(s, prefix) ==
    Len(prefix) <= Len(s) /\ SubSeq(s, 1, Len(prefix)) = prefix

\* include.some(l => list.includes(l))
SomeIncluded(wanted, list) == \E i \in 1..Len(wanted) : Includes(list, wanted[i])

\* The parentIssue block of checkIssueCondition: "true" when it lets the
\* evaluation continue, "false" when it returns false, "TypeError" when it
\* reads a property of an undefined parent field.
checkParentIssue(p, ctx, selfUserId) ==
    IF IsSome(p.number) /\ ctx.parentIssueNumber # p.number THEN "false"
    ELSE IF p.assignee = "self" /\ ~Truthy(selfUserId) THEN "false"
    ELSE IF p.assignee = "self" /\ ~IsSome(ctx.parentIssueAssignees) THEN "TypeError"
    ELSE IF p.assignee = "self" /\ ~Includes(Get(ctx.parentIssueAssignees), selfUserId)
         THEN "false"
    ELSE IF /\ IsSome(p.labels)
            /\ NonEmptyList(Get(p.labels).include)
            /\ ~IsSome(ctx.parentIssueLabels)
         THEN "TypeError"
    ELSE IF /\ IsSome(p.labels)
            /\ NonEmptyList(Get(p.labels).include)
            /\ ~SomeIncluded(Get(Get(p.labels).include), Get(ctx.parentIssueLabels))
         THEN "false"
    ELSE IF /\ IsSome(p.labels)
            /\ NonEmptyList(Get(p.labels).exclude)
            /\ ~IsSome(ctx.parentIssueLabels)
         THEN "TypeError"
    ELSE IF /\ IsSome(p.labels)
            /\ NonEmptyList(Get(p.labels).exclude)
            /\ SomeIncluded(Get(Get(p.labels).exclude), Get(ctx.parentIssueLabels))
         THEN "false"
    ELSE IF /\ IsSome(p.titlePrefix)
            /\ \/ ~TruthyS(ctx.parentIssueTitle)
               \/ ~StartsWith(Get(ctx.parentIssueTitle), Get(p.titlePrefix))
         THEN "false"
    ELSE "true"

\* "true" / "false" for the returned boolean, "TypeError" when the
\* evaluation reads a property of an undefined context field.
checkIssueCondition(c, ctx, selfUserId) ==
    IF c.createdBy = "self" /\ (~Truthy(selfUserId) \/ ctx.issueAuthor # selfUserId)
    THEN "false"
    ELSE IF c.assignee = "self" /\ ~Truthy(selfUserId) THEN "false"
    ELSE IF c.assignee = "self" /\ ~Includes(ctx.assignees, selfUserId) THEN "false"
    ELSE IF /\ IsSome(c.labels)
            /\ NonEmptyList(Get(c.labels).include)
            /\ ~SomeIncluded(Get(Get(c.labels).include), ctx.labels)
         THEN "false"
    ELSE IF /\ IsSome(c.labels)
            /\ NonEmptyList(Get(c.labels).exclude)
            /\ SomeIncluded(Get(Get(c.labels).exclude), ctx.labels)
         THEN "false"
    ELSE IF NonEmptyList(c.repos) /\ ~Includes(Get(c.repos), ctx.repo) THEN "false"
    ELSE IF /\ NonEmptyList(c.owners)
            /\ \/ FirstSegment(ctx.repo) = <<>>
               \/ ~Includes(Get(c.owners), FirstSegment(ctx.repo))
         THEN "false"
    ELSE IF IsSome(c.titlePrefix) /\ ~IsSome(ctx.issueTitle) THEN "TypeError"
    ELSE IF IsSome(c.titlePrefix) /\ ~StartsWith(Get(ctx.issueTitle), Get(c.titlePrefix))
         THEN "false"
    ELSE IF IsSome(c.parentIssue)
         THEN checkParentIssue(Get(c.parentIssue), ctx, selfUserId)
    ELSE "true"

\* A PermissionCheckResult of conditions.ts, which also carries enforce
IssueDecision(allowed, ruleName, reason, enforce) ==
    [allowed |-> allowed, ruleName |-> ruleName, reason |-> reason, enforce |-> enforce]

\* What a call yields: a returned value or a thrown one
Returned(v) == [threw |-> FALSE, value |-> v]
Thrown(e) == [threw |-> TRUE, value |-> e]

\* Thrown values, by the test of handleError that recognises them
JsError == [kind |-> "Error", code |-> Undef]
GhCliError == [kind |-> "GhCliError", code |-> "GH_CLI_ERROR"]
ErrorResponse(code) == [kind |-> "ErrorResponse", code |-> code]

RECURSIVE evaluateRulesFrom_EnforceOfFirstRule(_, _, _, _)
evaluateRulesFrom_EnforceOfFirstRule(rules, i, ctx, selfUserId) ==
    IF i > Len(rules)
    THEN Returned(IssueDecision(FALSE, Undef,
                                <<"No matching rule and default permission is deny">>, None))
    ELSE IF ~IsSome(rules[i].condition)
         THEN Returned(IssueDecision(TRUE, rules[i].name,
                                     <<"Allowed by rule '", rules[i].name, "'">>,
                                     rules[1].enforce))
    ELSE IF checkIssueCondition(Get(rules[i].condition), ctx, selfUserId) = "TypeError"
         THEN Thrown(JsError)
    ELSE IF checkIssueCondition(Get(rules[i].condition), ctx, selfUserId) = "false"
         THEN evaluateRulesFrom_EnforceOfFirstRule(rules, i + 1, ctx, selfUserId)
    ELSE Returned(IssueDecision(TRUE, rules[i].name,
                                <<"Allowed by rule '", rules[i].name, "'">>,
                                rules[1].enforce))

\* The for loop of evaluateRules from rule i on
RECURSIVE evaluateRulesFrom(_, _, _, _)
evaluateRulesFrom(rules, i, ctx, selfUserId) ==
    IF i > Len(rules)
    THEN Returned(IssueDecision(FALSE, Undef,
                                <<"No matching rule and default permission is deny">>, None))
    ELSE IF ~IsSome(rules[i].condition)
         THEN Returned(IssueDecision(TRUE, rules[i].name,
                                     <<"Allowed by rule '", rules[i].name, "'">>,
                                     rules[i].enforce))
    ELSE IF checkIssueCondition(Get(rules[i].condition), ctx, selfUserId) = "TypeError"
         THEN Thrown(JsError)
    ELSE IF checkIssueCondition(Get(rules[i].condition), ctx, selfUserId) = "false"
         THEN evaluateRulesFrom(rules, i + 1, ctx, selfUserId)
    ELSE Returned(IssueDecision(TRUE, rules[i].name,
                                <<"Allowed by rule '", rules[i].name, "'">>,
                                rules[i].enforce))

evaluateRules(rules, ctx, selfUserId) == evaluateRulesFrom(rules, 1, ctx, selfUserId)

\* checkAllowedOwners of conditions.ts: <<>> for null or <<decision>>
checkAllowedOwnersOfRepo(cfg, repo) ==
    IF ~NonEmptyList(cfg.allowedOwners) THEN None
    ELSE IF FirstSegment(repo) = <<>>
         THEN Some(IssueDecision(FALSE, Undef, <<"Could not determine owner from repo">>,
                                 None))
    ELSE IF ~Includes(Get(cfg.allowedOwners), FirstSegment(repo))
         THEN Some(IssueDecision(FALSE, Undef,
                                 OwnerBlockedReason(FirstSegment(repo),
                                                    Get(cfg.allowedOwners)),
                                 None))
    ELSE None

\* checkPermission of commands/issue-edit.ts
checkIssueEditPermission(cfg, ctx) ==
    IF IsSome(checkAllowedOwnersOfRepo(cfg, ctx.repo))
    THEN Returned(Get(checkAllowedOwnersOfRepo(cfg, ctx.repo)))
    ELSE evaluateRules(cfg.issueEdit, ctx, cfg.selfUserId)

\* No command is running (the specifications of the pure functions)
IdleCmd ==
    /\ cmd = [family |-> "none", resource |-> "none", name |-> "none"]
    /\ args = [repo |-> None, owner |-> None]
    /\ dryRun = FALSE
    /\ remote = None
    /\ resolved = None
    /\ pc = "idle"
    /\ calls = <<>>
    /\ output = <<>>
    /\ exitCode = None

\* Characters of the modelled branch names and patterns.
BranchChars == {"a", "b", "/", "."}
PatternChars == {"a", "/", ".", "*"}

\* ------------------------------------------------------------------
\* Specification of matchBranchPattern applied to drawn inputs
\* ------------------------------------------------------------------

InitBranch ==
    /\ branch \in Strings(BranchChars, MaxLen)
    /\ pattern \in Strings(PatternChars, MaxLen)
    /\ matched = None
    /\ config = Config0
    /\ resource = "pr"
    /\ operation = Undef
    /\ context = EmptyContext
    /\ result = None
    /\ condition = EmptyCondition
    /\ met = None
    /\ IdleCmd

MatchBranch ==
    /\ matched = None
    /\ matched' = Some(matchBranchPattern(branch, pattern))
    /\ UNCHANGED <<branch, pattern, permVars, condVars, cmdVars>>

NextBranch == MatchBranch

SpecBranch == InitBranch /\ [][NextBranch]_vars

\* ------------------------------------------------------------------
\* Inputs drawn for the condition evaluator
\* ------------------------------------------------------------------

MaxLabels == 2

RepoAX == <<"a", "/", "x">>
RepoBX == <<"b", "/", "x">>
RepoNoOwner == <<"/", "x">>
OwnerA == <<"a">>
OwnerB == <<"b">>
OwnerC == <<"c">>

LabelCond(inc, exc) == [include |-> inc, exclude |-> exc]
LabelConds ==
    {None,
     Some(LabelCond(Some(<<"x">>), None)),
     Some(LabelCond(None, Some(<<"y">>))),
     Some(LabelCond(Some(<<"x">>), Some(<<"y">>))),
     Some(LabelCond(Some(<<>>), None))}

IssueConditions ==
    {[EmptyCondition EXCEPT !.createdBy = cb, !.assignee = asg, !.labels = lb,
                            !.repos = rp, !.owners = ow] :
        cb \in {Undef, "self"}, asg \in {Undef, "self"}, lb \in LabelConds,
        rp \in {None, Some(<<RepoAX>>)}, ow \in {None, Some(<<OwnerA>>)}}

IssueContexts ==
    {[EmptyContext EXCEPT !.repo = rp, !.issueAuthor = au, !.labels = lb,
                          !.assignees = asg] :
        rp \in {None, Some(RepoAX), Some(RepoBX)},
        au \in {Undef, "", "bot", "alice"},
        lb \in {None} \cup {Some(l) : l \in Strings({"x", "y"}, MaxLabels)},
        asg \in {None, Some(<<"alice">>), Some(<<"alice", "bot">>)}}

PrConditions ==
    {[EmptyCondition EXCEPT !.createdBy = cb, !.labels = lb, !.draft = dr,
                            !.baseBranch = bb, !.headBranch = hb,
                            !.reviewDecision = rd] :
        cb \in {Undef, "self"},
        lb \in {None, Some(LabelCond(Some(<<"x">>), None))},
        dr \in {None, Some(FALSE), Some(TRUE)},
        bb \in {None, Some(<<(<<"a", "*">>)>>)},
        hb \in {None, Some(<<(<<"b">>)>>)},
        rd \in {Undef, "APPROVED"}}

PrContexts ==
    {[EmptyContext EXCEPT !.repo = Some(RepoAX), !.prAuthor = au, !.labels = lb,
                          !.draft = dr, !.baseBranch = bb, !.headBranch = hb,
                          !.reviewDecision = rd] :
        au \in {"bot", "alice"},
        lb \in {None, Some(<<"x">>)},
        dr \in {None, Some(FALSE), Some(TRUE)},
        bb \in {None, Some(<<"a", "b">>), Some(<<"b">>)},
        hb \in {Some(<<"b">>), Some(<<"a">>)},
        rd \in {Undef, "APPROVED", "CHANGES_REQUESTED"}}

SearchConditions ==
    {[EmptyCondition EXCEPT !.repos = rp, !.owners = ow] :
        rp \in {None, Some(<<RepoAX>>)}, ow \in {None, Some(<<OwnerA>>)}}

SearchContexts ==
    {[EmptyContext EXCEPT !.repo = rp] :
        rp \in {None, Some(RepoAX), Some(RepoBX), Some(RepoNoOwner)}}

ProjectConditions ==
    {[EmptyCondition EXCEPT !.owner = ow, !.projectNumbers = pn] :
        ow \in {None, Some(<<OwnerA>>)}, pn \in {None, Some(<<1, 2>>)}}

ProjectContexts ==
    {[EmptyContext EXCEPT !.projectOwner = ow, !.projectNumber = pn] :
        ow \in {None, Some(OwnerA), Some(OwnerB)}, pn \in {None, Some(1), Some(3)}}

ConditionsOf(res) ==
    CASE res = "issue" -> IssueConditions
      [] res = "pr" -> PrConditions
      [] res = "search" -> SearchConditions
      [] res = "project" -> ProjectConditions

ContextsOf(res) ==
    CASE res = "issue" -> IssueContexts
      [] res = "pr" -> PrContexts
      [] res = "search" -> SearchContexts
      [] res = "project" -> ProjectContexts

\* ------------------------------------------------------------------
\* Specification of checkConditionForResource applied to drawn inputs
\* ------------------------------------------------------------------

IdleBranch == branch = <<>> /\ pattern = <<>> /\ matched = None
IdleCond == condition = EmptyCondition /\ met = None

InitCond ==
    /\ IdleBranch
    /\ resource \in ResourceTypes
    /\ condition \in ConditionsOf(resource)
    /\ context \in ContextsOf(resource)
    /\ \E self \in {Undef, "", "bot"} : config = [Config0 EXCEPT !.selfUserId = self]
    /\ operation = Undef
    /\ result = None
    /\ met = None
    /\ IdleCmd

CheckCondition ==
    /\ met = None
    /\ met' = Some(checkConditionForResource(resource, condition, context,
                                             config.selfUserId))
    /\ UNCHANGED <<branchVars, permVars, condition, cmdVars>>

NextCond == CheckCondition

SpecCond == InitCond /\ [][NextCond]_vars

\* ------------------------------------------------------------------
\* Inputs drawn for checkPermission
\* ------------------------------------------------------------------

MaxRules == 2

SetOf(seq) == {seq[i] : i \in 1..Len(seq)}

\* Rule names follow the position in the list, so every list has distinct names.
RuleName(i) == CASE i = 1 -> "R1" [] i = 2 -> "R2" [] i = 3 -> "R3" [] OTHER -> "R4"

Rule(name, operations, cond) ==
    [name |-> name, operations |-> operations, condition |-> cond]

OperationLists(res) ==
    IF res = "search"
    THEN {<<"code">>, <<"issues">>, <<"code", "issues", "prs">>}
    ELSE {<<"list">>, <<"create">>, <<"list", "create", "close">>}

RuleConditions(res) ==
    IF res = "project"
    THEN {None, Some([EmptyCondition EXCEPT !.owner = Some(<<OwnerA>>)])}
    ELSE {None, Some([EmptyCondition EXCEPT !.owners = Some(<<OwnerA>>)])}

RuleLists(res) ==
    UNION {{[i \in 1..k |-> Rule(RuleName(i), f[i][1], f[i][2])] :
               f \in [1..k -> OperationLists(res) \X RuleConditions(res)]} :
           k \in 0..MaxRules}

\* One unconditional rule that lists every operation of the resource
AllowAll(res) == <<Rule("allow-all", OperationValues(res), None)>>

PermContexts(res) ==
    IF res = "project"
    THEN {[EmptyContext EXCEPT !.projectOwner = ow] :
             ow \in {None, Some(OwnerA), Some(OwnerB)}}
    ELSE {[EmptyContext EXCEPT !.repo = rp] :
             rp \in {None, Some(<<>>), Some(RepoAX), Some(RepoBX), Some(RepoNoOwner)}}

\* The Config with list rules for resource res and the same filler for the
\* three other resources
ConfigFor(res, rules, filler, allowedOwners, defaultPermission) ==
    [issueRules |-> IF res = "issue" THEN rules ELSE IF filler THEN AllowAll("issue") ELSE <<>>,
     prRules |-> IF res = "pr" THEN rules ELSE IF filler THEN AllowAll("pr") ELSE <<>>,
     searchRules |-> IF res = "search" THEN rules ELSE IF filler THEN AllowAll("search") ELSE <<>>,
     projectRules |-> IF res = "project" THEN rules ELSE IF filler THEN AllowAll("project") ELSE <<>>,
     selfUserId |-> Undef,
     defaultPermission |-> defaultPermission,
     allowedOwners |-> allowedOwners]

\* ------------------------------------------------------------------
\* Specification of checkPermission applied to drawn inputs
\* ------------------------------------------------------------------

InitPerm ==
    /\ IdleBranch
    /\ IdleCond
    /\ resource \in ResourceTypes
    /\ operation \in SetOf(OperationValues(resource))
    /\ context \in PermContexts(resource)
    /\ \E rules \in RuleLists(resource), filler \in BOOLEAN,
          ao \in {None, Some(<<>>), Some(<<OwnerA, OwnerC>>)},
          dp \in {"deny", "read"} :
          config = ConfigFor(resource, rules, filler, ao, dp)
    /\ result = None
    /\ IdleCmd

CheckPermission ==
    /\ result = None
    /\ result' = Some(checkPermission(config, resource, operation, context))
    /\ UNCHANGED <<branchVars, condVars, cmdVars, config, resource, operation, context>>

NextPerm == CheckPermission

SpecPerm == InitPerm /\ [][NextPerm]_vars

\* ------------------------------------------------------------------
\* Specification of checkIssueCondition applied to drawn inputs
\* ------------------------------------------------------------------

\* A parentIssue sub-condition
ParentIssueCondition(number, assignee, labels, titlePrefix) ==
    [number |-> number, assignee |-> assignee, labels |-> labels,
     titlePrefix |-> titlePrefix]

\* Conditions of conditions.ts with and without a parentIssue sub-condition
ParentScopedConditions ==
    {EmptyIssueCondition,
     [EmptyIssueCondition EXCEPT !.labels = Some(LabelCond(Some(<<"x">>), None))]}
    \cup {[EmptyIssueCondition EXCEPT
               !.parentIssue = Some(ParentIssueCondition(n, asg, lb, tp))] :
             n \in {None, Some(7)}, asg \in {Undef, "self"},
             lb \in {None, Some(LabelCond(Some(<<"x">>), None)),
                     Some(LabelCond(None, Some(<<"y">>))),
                     Some(LabelCond(Some(<<"x">>), Some(<<"y">>)))},
             tp \in {None, Some(<<"a">>)}}

\* Contexts of an issue without parent (the parent fields null, absent or
\* empty) and of an issue with a parent
ParentContexts ==
    {[IssueContext(RepoAX, Some(1), "bot", lb, <<>>)
         EXCEPT !.parentIssueAssignees = pa, !.parentIssueLabels = pl] :
        lb \in {<<>>, <<"x">>}, pa \in {None, Some(<<>>)}, pl \in {None, Some(<<>>)}}
    \cup
    {[IssueContext(RepoAX, Some(1), "bot", <<>>, <<>>)
         EXCEPT !.parentIssueNumber = Some(n), !.parentIssueAssignees = Some(pa),
                !.parentIssueLabels = Some(pl), !.parentIssueTitle = Some(pt)] :
        n \in {7, 8}, pa \in {<<>>, <<"bot">>},
        pl \in {l \in Strings({"x", "y"}, MaxLabels) : Len(l) <= 1},
        pt \in {<<"a", "b">>, <<"b">>}}

InitIssueCond ==
    /\ IdleBranch
    /\ resource = "issue"
    /\ condition \in ParentScopedConditions
    /\ context \in ParentContexts
    /\ \E self \in {Undef, "bot"} : config = [Config0 EXCEPT !.selfUserId = self]
    /\ operation = Undef
    /\ result = None
    /\ met = None
    /\ IdleCmd

CheckIssueCondition ==
    /\ met = None
    /\ met' = Some(checkIssueCondition(condition, context, config.selfUserId))
    /\ UNCHANGED <<branchVars, permVars, condition, cmdVars>>

NextIssueCond == CheckIssueCondition

SpecIssueCond == InitIssueCond /\ [][NextIssueCond]_vars

\* ------------------------------------------------------------------
\* The command pipelines (commands/*.ts over gh-client.ts, and
\* commands/issue-edit.ts over gh.ts and conditions.ts)
\* ------------------------------------------------------------------

\* A command line: the family says which pipeline serves it
Command(family, res, name) == [family |-> family, resource |-> res, name |-> name]

\* The subcommands served through gh-client.ts, named by the operation of
\* their resource (issue comments is list:comments, project field-list is
\* field:list, and so on)
ClientCommands ==
    UNION {{Command("client", res, name) : name \in SetOf(OperationValues(res))} :
           res \in ResourceTypes}

\* issue edit of commands/issue-edit.ts
EditCommand == Command("edit", "issue", "update")

\* The commands whose action parses a <number> argument
TakesNumber(c) == c.resource # "search" /\ c.name \notin {"list", "create"}

\* The operation a gh-client function hands to ensurePermission
ClientOperation(c) ==
    IF c.name \in SetOf(readOperations) THEN "read" ELSE c.name

\* What gh holds for the targeted issue or pull request
Remote(exists, author, labels, draft) ==
    [exists |-> exists, author |-> author, labels |-> labels, assignees |-> <<>>,
     draft |-> draft, baseBranch |-> <<"a">>, headBranch |-> <<"b">>,
     reviewDecision |-> Undef]

\* getIssueContext and getPrContext, once gh has answered
getIssueContext(a, r) ==
    [EmptyContext EXCEPT !.repo = a.repo, !.issueNumber = Some(1),
                         !.issueAuthor = r.author, !.labels = Some(r.labels),
                         !.assignees = Some(r.assignees)]
getPrContext(a, r) ==
    [EmptyContext EXCEPT !.repo = a.repo, !.prNumber = Some(1),
                         !.prAuthor = r.author, !.labels = Some(r.labels),
                         !.assignees = Some(r.assignees), !.draft = Some(r.draft),
                         !.baseBranch = Some(r.baseBranch),
                         !.headBranch = Some(r.headBranch),
                         !.reviewDecision = r.reviewDecision]

\* The context a gh-client function builds from the arguments alone
ArgsContext(c, a) ==
    IF c.resource = "project"
    THEN [EmptyContext EXCEPT !.projectOwner = a.owner,
                              !.projectNumber = IF TakesNumber(c) THEN Some(1) ELSE None]
    ELSE IF c.resource = "search"
    THEN [EmptyContext EXCEPT !.repo = IF c.name = "repos" THEN None ELSE a.repo]
    ELSE IF c.resource = "issue"
    THEN [EmptyContext EXCEPT !.repo = a.repo,
                              !.issueNumber = IF TakesNumber(c) THEN Some(1) ELSE None]
    ELSE [EmptyContext EXCEPT !.repo = a.repo,
                              !.prNumber = IF TakesNumber(c) THEN Some(1) ELSE None]

\* The second segment of repo.split("/")
SecondSegment(s) ==
    IF Len(FirstSegment(s)) + 1 >= Len(s) THEN <<>>
    ELSE FirstSegment(SubSeq(s, Len(FirstSegment(s)) + 2, Len(s)))

\* fetchIssueContext of gh.ts, once gh has answered with an existing issue
fetchIssueContext(rp, r) ==
    IssueContext(rp, Some(1), r.author, r.labels, r.assignees)

\* ensurePermission of gh-client.ts: returns, or throws the ErrorResponse
ensurePermission_NeverThrows(cfg, res, op, ctx) ==
    Returned(checkPermission(cfg, res, op, ctx))
ensurePermission(cfg, res, op, ctx) ==
    IF ~checkPermission(cfg, res, op, ctx).allowed
    THEN Thrown(ErrorResponse("PERMISSION_DENIED"))
    ELSE Returned(checkPermission(cfg, res, op, ctx))

\* The DryRunResult issue edit throws when dry-run is on
DryRunResult(d) == [kind |-> "DryRunResult", code |-> Undef, decision |-> d]

\* One printed JSON payload
Payload(kind, code, allowed) == [kind |-> kind, code |-> code, allowed |-> allowed]

\* handleError: the payload it prints and the status it exits with
handleError_ErrorExitsZero(e) ==
    IF e.kind = "DryRunResult"
    THEN [payload |-> Payload("dryRun", Undef, Some(e.decision.allowed)), exit |-> 0]
    ELSE IF e.kind = "ErrorResponse"
    THEN [payload |-> Payload("error", e.code, None), exit |-> 1]
    ELSE IF e.kind = "Error"
    THEN [payload |-> Payload("error", "UNKNOWN_ERROR", None), exit |-> 0]
    ELSE IF e.kind = "GhCliError"
    THEN [payload |-> Payload("error", "GH_CLI_ERROR", None), exit |-> 1]
    ELSE [payload |-> Payload("error", "UNKNOWN_ERROR", None), exit |-> 1]
handleError(e) ==
    IF e.kind = "DryRunResult"
    THEN [payload |-> Payload("dryRun", Undef, Some(e.decision.allowed)), exit |-> 0]
    ELSE IF e.kind = "ErrorResponse"
    THEN [payload |-> Payload("error", e.code, None), exit |-> 1]
    ELSE IF e.kind = "Error"
    THEN [payload |-> Payload("error", "UNKNOWN_ERROR", None), exit |-> 1]
    ELSE IF e.kind = "GhCliError"
    THEN [payload |-> Payload("error", "GH_CLI_ERROR", None), exit |-> 1]
    ELSE [payload |-> Payload("error", "UNKNOWN_ERROR", None), exit |-> 1]

\* One gh subprocess, by its purpose
Call(kind, ok) == [kind |-> kind, ok |-> ok, args |-> <<>>]
\* The same, with the enforce arguments its command line carries
CallWith(kind, ok, enforceArgs) == [kind |-> kind, ok |-> ok, args |-> enforceArgs]

\* issue edit of commands/issue.ts (the version that applies enforce) and
\* issue create of commands/issue-create.ts
EditEnforceCommand == Command("editEnforce", "issue", "update")
CreateCommand == Command("create", "issue", "create")

\* An Enforce directive of a rule
Enforce(addLabels, removeLabels, addAssignees, removeAssignees) ==
    [addLabels |-> addLabels, removeLabels |-> removeLabels,
     addAssignees |-> addAssignees, removeAssignees |-> removeAssignees]

\* One flag of buildEnforceArgs repeated for every value of an optional list
RECURSIVE FlagArgs(_, _)
FlagArgs(flag, values) ==
    IF values = <<>> THEN <<>>
    ELSE <<flag, Head(values)>> \o FlagArgs(flag, Tail(values))

\* resolveSelf over a list: "self" becomes selfUserId
ResolveSelfList(values, selfUserId) ==
    [i \in 1..Len(values) |-> IF values[i] = "self" THEN selfUserId ELSE values[i]]

\* buildEnforceArgs: the argument list, or the thrown CONFIG_ERROR when a
\* "self" assignee meets a falsy selfUserId
buildEnforceArgs(enforce, selfUserId) ==
    IF /\ ~Truthy(selfUserId)
       /\ \/ Includes(OrEmpty(enforce.addAssignees), "self")
          \/ Includes(OrEmpty(enforce.removeAssignees), "self")
    THEN Thrown(ErrorResponse("CONFIG_ERROR"))
    ELSE Returned(FlagArgs("--add-label", OrEmpty(enforce.addLabels))
                  \o FlagArgs("--remove-label", OrEmpty(enforce.removeLabels))
                  \o FlagArgs("--add-assignee",
                              ResolveSelfList(OrEmpty(enforce.addAssignees), selfUserId))
                  \o FlagArgs("--remove-assignee",
                              ResolveSelfList(OrEmpty(enforce.removeAssignees), selfUserId)))

\* checkPermission of commands/issue-create.ts
checkIssueCreatePermission(cfg, ctx) ==
    IF IsSome(checkAllowedOwnersOfRepo(cfg, ctx.repo))
    THEN Returned(Get(checkAllowedOwnersOfRepo(cfg, ctx.repo)))
    ELSE evaluateRules(cfg.issueCreate, ctx, cfg.selfUserId)

\* The context issue create builds: no author, no labels, no assignees
CreateContext_ActingUser(rp) == IssueContext(rp, Some(0), "bot", <<>>, <<"bot">>)
CreateContext(rp) == IssueContext(rp, Some(0), "", <<>>, <<>>)

\* ------------------------------------------------------------------
\* The linking commands (commands/issue-sub-issue.ts and
\* commands/issue-dependency.ts over commands/issue-ref.ts and gh.ts)
\* ------------------------------------------------------------------

\* issue sub-issue add/remove and issue dependency add/remove
LinkCommands ==
    {Command("link", "issue", name) :
        name \in {"sub-issue add", "sub-issue remove", "dependency add",
                  "dependency remove"}}

\* \d of a regular expression
IsDigit(ch) == ch \in {"0", "1", "2", "3", "4", "5", "6", "7", "8", "9"}

\* /^\d+$/.test(s)
AllDigits(s) == s # <<>> /\ \A i \in 1..Len(s) : IsDigit(s[i])

DigitValue(ch) ==
    CASE ch = "0" -> 0 [] ch = "1" -> 1 [] ch = "2" -> 2 [] ch = "3" -> 3
      [] ch = "4" -> 4 [] ch = "5" -> 5 [] ch = "6" -> 6 [] ch = "7" -> 7
      [] ch = "8" -> 8 [] ch = "9" -> 9

\* parseInt(s, 10) of a string of digits
RECURSIVE ParseInt(_)
ParseInt(s) ==
    IF s = <<>> THEN 0
    ELSE 10 * ParseInt(SubSeq(s, 1, Len(s) - 1)) + DigitValue(s[Len(s)])

\* The position of the first ch of s from position from on, 0 when there is none
FirstIndexFrom(s, ch, from) ==
    IF \E i \in from..Len(s) : s[i] = ch
    THEN CHOOSE i \in from..Len(s) :
            s[i] = ch /\ \A j \in from..(i - 1) : s[j] # ch
    ELSE 0

\* ref.match(/^([^/]+\/[^#]+)#(\d+)$/): <<>> for null, or <<match[1], match[2]>>
CrossRepoMatch(ref) ==
    LET slash == FirstIndexFrom(ref, "/", 1)
        hash == IF slash = 0 THEN 0 ELSE FirstIndexFrom(ref, "#", slash + 1)
    IN  IF /\ slash > 1
           /\ hash > slash + 1
           /\ hash < Len(ref)
           /\ AllDigits(SubSeq(ref, hash + 1, Len(ref)))
        THEN <<SubSeq(ref, 1, hash - 1), SubSeq(ref, hash + 1, Len(ref))>>
        ELSE <<>>

IssueRef(repo, number) == [repo |-> repo, number |-> number]

\* parseIssueRef: the IssueRef, or the thrown VALIDATION_ERROR
parseIssueRef(ref, defaultRepo) ==
    IF AllDigits(ref)
    THEN IF ParseInt(ref) <= 0
         THEN Thrown(ErrorResponse("VALIDATION_ERROR"))
         ELSE Returned(IssueRef(defaultRepo, ParseInt(ref)))
    ELSE IF CrossRepoMatch(ref) # <<>>
    THEN IF ParseInt(CrossRepoMatch(ref)[2]) <= 0
         THEN Thrown(ErrorResponse("VALIDATION_ERROR"))
         ELSE Returned(IssueRef(CrossRepoMatch(ref)[1], ParseInt(CrossRepoMatch(ref)[2])))
    ELSE Thrown(ErrorResponse("VALIDATION_ERROR"))

\* The rule list a linking command evaluates
LinkRules(cfg, c) ==
    IF c.name \in {"sub-issue add", "sub-issue remove"}
    THEN cfg.issueSubIssue
    ELSE cfg.issueDependency

\* checkPermission of commands/issue-sub-issue.ts and commands/issue-dependency.ts
checkLinkPermission(cfg, c, ctx) ==
    IF IsSome(checkAllowedOwnersOfRepo(cfg, ctx.repo))
    THEN Returned(Get(checkAllowedOwnersOfRepo(cfg, ctx.repo)))
    ELSE evaluateRules(LinkRules(cfg, c), ctx, cfg.selfUserId)

\* What a linking command throws on the decision when dry-run is off: the
\* PERMISSION_DENIED of a denial, the NOT_OWNER of a second reference in
\* another repository whose owner allowedOwners blocks, or nothing (<<>>)
LinkRefusal_NoCrossRepoCheck(cfg, decision, childRepo, repo) ==
    IF ~decision.allowed THEN Some(ErrorResponse("PERMISSION_DENIED"))
    ELSE None
LinkRefusal(cfg, decision, childRepo, repo) ==
    IF ~decision.allowed THEN Some(ErrorResponse("PERMISSION_DENIED"))
    ELSE IF childRepo # repo /\ IsSome(checkAllowedOwnersOfRepo(cfg, childRepo))
    THEN Some(ErrorResponse("NOT_OWNER"))
    ELSE None

\* ------------------------------------------------------------------
\* Specification of one command invocation
\* ------------------------------------------------------------------

\* What an invocation never writes
inputVars == <<branchVars, condVars, config, resource, operation, cmd, args,
               dryRun, remote>>

Remotes ==
    {Remote(ex, au, lb, dr) :
        ex \in BOOLEAN, au \in {"bot", "alice"}, lb \in {<<>>, <<"x">>},
        dr \in {FALSE}}

\* A rule of the issueEdit list of conditions.ts
EditRule(name, cond, enforce) == [name |-> name, condition |-> cond, enforce |-> enforce]

EditConditions ==
    {None,
     Some([EmptyIssueCondition EXCEPT !.createdBy = "self"]),
     Some([EmptyIssueCondition EXCEPT !.labels = Some(LabelCond(Some(<<"x">>), None))]),
     Some([EmptyIssueCondition EXCEPT !.titlePrefix = Some(<<"a">>)])}

EditRuleLists ==
    UNION {{[i \in 1..k |-> EditRule(RuleName(i), f[i], None)] :
               f \in [1..k -> EditConditions]} :
           k \in 0..MaxRules}

EditConfig(rules, selfUserId, allowedOwners) ==
    [issueEdit |-> rules, selfUserId |-> selfUserId, allowedOwners |-> allowedOwners]

InitClient ==
    /\ cmd \in ClientCommands
    /\ resource = cmd.resource
    /\ operation = ClientOperation(cmd)
    /\ \E rp \in {None, Some(RepoAX), Some(RepoBX), Some(RepoNoOwner)},
          ow \in {None, Some(OwnerA), Some(OwnerB)} :
          args = IF cmd.resource = "project"
                 THEN [repo |-> None, owner |-> ow]
                 ELSE [repo |-> rp, owner |-> None]
    /\ dryRun \in BOOLEAN
    /\ remote \in {Some(r) : r \in {q \in Remotes : q.exists /\ q.labels = <<>>}}
    /\ \E rules \in RuleLists(cmd.resource),
          ao \in {None, Some(<<OwnerA, OwnerC>>)},
          dp \in {"deny", "read"} :
          config = ConfigFor(cmd.resource, rules, FALSE, ao, dp)

InitEdit ==
    /\ cmd = EditCommand
    /\ resource = "issue"
    /\ operation = Undef
    /\ \E rp \in {None, Some(RepoAX), Some(RepoBX), Some(<<"a">>)} :
          args = [repo |-> rp, owner |-> None]
    /\ dryRun \in BOOLEAN
    /\ remote \in {Some(r) : r \in Remotes}
    /\ \E rules \in EditRuleLists, self \in {Undef, "bot"},
          ao \in {None, Some(<<OwnerA>>)} :
          config = EditConfig(rules, self, ao)

\* The enforce directives of the modelled rules
Enforces ==
    {None,
     Some(Enforce(None, None, None, None)),
     Some(Enforce(Some(<<"x">>), None, None, None)),
     Some(Enforce(None, None, Some(<<"self">>), None)),
     Some(Enforce(None, None, None, Some(<<"self">>)))}

EditEnforceConditions ==
    {None,
     Some([EmptyIssueCondition EXCEPT !.labels = Some(LabelCond(Some(<<"x">>), None))])}

CreateConditions ==
    {None,
     Some([EmptyIssueCondition EXCEPT !.createdBy = "self"]),
     Some([EmptyIssueCondition EXCEPT !.assignee = "self"])}

\* Rule lists whose rules carry a condition of conds and an enforce directive
EnforceRuleLists(conds) ==
    UNION {{[i \in 1..k |-> EditRule(RuleName(i), f[i][1], f[i][2])] :
               f \in [1..k -> conds \X Enforces]} :
           k \in 0..MaxRules}

CreateConfig(rules, selfUserId, allowedOwners) ==
    [issueCreate |-> rules, selfUserId |-> selfUserId, allowedOwners |-> allowedOwners]

InitEditEnforce ==
    /\ cmd = EditEnforceCommand
    /\ resource = "issue"
    /\ operation = Undef
    /\ \E rp \in {None, Some(RepoAX), Some(RepoBX)} :
          args = [repo |-> rp, owner |-> None]
    /\ dryRun \in BOOLEAN
    /\ remote \in {Some(r) : r \in {q \in Remotes : q.exists /\ q.author = "bot"}}
    /\ \E rules \in EnforceRuleLists(EditEnforceConditions), self \in {Undef, "bot"},
          ao \in {None, Some(<<OwnerA>>)} :
          config = EditConfig(rules, self, ao)

InitCreate ==
    /\ cmd = CreateCommand
    /\ resource = "issue"
    /\ operation = Undef
    /\ \E rp \in {None, Some(RepoAX), Some(RepoBX)} :
          args = [repo |-> rp, owner |-> None]
    /\ dryRun \in BOOLEAN
    /\ remote = None
    /\ \E rules \in EnforceRuleLists(CreateConditions), self \in {Undef, "", "bot"},
          ao \in {None, Some(<<OwnerA>>)} :
          config = CreateConfig(rules, self, ao)

\* Rules for create whose conditions name "self"
SelfConditions ==
    {None,
     Some([EmptyCondition EXCEPT !.createdBy = "self"]),
     Some([EmptyCondition EXCEPT !.assignee = "self"])}

SelfRuleLists ==
    UNION {{[i \in 1..k |-> Rule(RuleName(i), <<"create">>, f[i])] :
               f \in [1..k -> SelfConditions]} :
           k \in 0..MaxRules}

\* issue create and pr create of gh-client.ts under such rules
InitClientCreate ==
    /\ cmd \in {Command("client", "issue", "create"), Command("client", "pr", "create")}
    /\ resource = cmd.resource
    /\ operation = ClientOperation(cmd)
    /\ \E rp \in {None, Some(RepoAX)} : args = [repo |-> rp, owner |-> None]
    /\ dryRun \in BOOLEAN
    /\ remote = None
    /\ \E rules \in SelfRuleLists, self \in {Undef, "", "bot"}, dp \in {"deny", "read"} :
          config = [ConfigFor(cmd.resource, rules, FALSE, None, dp)
                        EXCEPT !.selfUserId = self]

\* The second issue reference of a linking command: a number, a reference
\* into the same or another repository, and malformed ones
LinkRefs ==
    {<<"5">>, <<"0">>, <<"x">>,
     <<"a", "/", "x", "#", "5">>,
     <<"b", "/", "x", "#", "5">>,
     <<"b", "/", "x", "#", "0">>,
     <<"b", "/", "#", "5">>,
     <<"a", "/", "/", "x", "#", "5">>}

LinkConditions ==
    {None,
     Some([EmptyIssueCondition EXCEPT !.labels = Some(LabelCond(Some(<<"x">>), None))])}

LinkRuleLists ==
    UNION {{[i \in 1..k |-> EditRule(RuleName(i), f[i], None)] :
               f \in [1..k -> LinkConditions]} :
           k \in 0..MaxRules}

\* The Config of a linking command c: rules is the list the command
\* evaluates, the list of the other linking commands allows everything
LinkConfig(c, rules, selfUserId, allowedOwners) ==
    [issueSubIssue |-> IF c.name \in {"sub-issue add", "sub-issue remove"}
                       THEN rules ELSE <<EditRule("other", None, None)>>,
     issueDependency |-> IF c.name \in {"dependency add", "dependency remove"}
                         THEN rules ELSE <<EditRule("other", None, None)>>,
     selfUserId |-> selfUserId, allowedOwners |-> allowedOwners]

InitLink ==
    /\ cmd \in LinkCommands
    /\ resource = "issue"
    /\ operation = Undef
    /\ \E rp \in {None, Some(RepoAX), Some(RepoBX)}, ref \in LinkRefs :
          args = [repo |-> rp, owner |-> None, ref |-> ref]
    /\ dryRun \in BOOLEAN
    /\ remote \in {Some(r) : r \in {q \in Remotes : q.author = "bot"}}
    /\ \E rules \in LinkRuleLists, ao \in {None, Some(<<OwnerA>>)} :
          config = LinkConfig(cmd, rules, "bot", ao)

\* Command lines that name no subcommand of safe-gh
InitUnsupported ==
    /\ cmd \in {Command("unsupported", "issue", "view"),
                Command("unsupported", "pr", "list")}
    /\ resource = cmd.resource
    /\ operation = Undef
    /\ \E rp \in {None, Some(RepoAX)} : args = [repo |-> rp, owner |-> None]
    /\ dryRun \in BOOLEAN
    /\ remote = None
    /\ \E ao \in {None, Some(<<OwnerA>>)} : config = EditConfig(<<>>, Undef, ao)

Init ==
    /\ IdleBranch
    /\ IdleCond
    /\ \/ InitClient \/ InitEdit \/ InitEditEnforce \/ InitCreate \/ InitClientCreate
       \/ InitLink \/ InitUnsupported
    /\ context = EmptyContext
    /\ result = None
    /\ resolved = None
    /\ pc = "start"
    /\ calls = <<>>
    /\ output = <<>>
    /\ exitCode = None

\* handleError prints the payload and the process exits
Finish(h) ==
    /\ output' = Append(output, h.payload)
    /\ exitCode' = Some(h.exit)
    /\ pc' = "done"

\* parseInt of the <number> argument and the isNaN test
Validate ==
    /\ pc = "start"
    /\ cmd.family # "unsupported"
    /\ \/ /\ TakesNumber(cmd)
          /\ Finish(handleError(ErrorResponse("VALIDATION_ERROR")))
       \/ /\ pc' = IF cmd.family = "client" THEN "context" ELSE "resolve"
          /\ UNCHANGED <<output, exitCode>>
    /\ UNCHANGED <<inputVars, context, result, resolved, calls>>

\* resolveRepo(options.repo) of issue edit
ResolveRepo ==
    /\ pc = "resolve"
    /\ IF TruthyS(args.repo)
       THEN /\ resolved' = args.repo
            /\ pc' = "context"
            /\ UNCHANGED <<calls, output, exitCode>>
       ELSE \E ok \in BOOLEAN :
               /\ calls' = Append(calls, Call("resolveRepo", ok))
               /\ IF ok
                  THEN /\ \E r \in {RepoAX, RepoBX} : resolved' = Some(r)
                       /\ pc' = "context"
                       /\ UNCHANGED <<output, exitCode>>
                  ELSE /\ Finish(handleError(GhCliError))
                       /\ UNCHANGED resolved
    /\ UNCHANGED <<inputVars, context, result>>

\* fetchIssueContext(issueNumber, repo) of issue edit
FetchIssueContext ==
    /\ pc = "context"
    /\ cmd.family \in {"edit", "editEnforce"}
    /\ IF FirstSegment(Get(resolved)) = <<>> \/ SecondSegment(Get(resolved)) = <<>>
       THEN /\ Finish(handleError(JsError))
            /\ UNCHANGED <<calls, context>>
       ELSE \E ok \in BOOLEAN :
               /\ calls' = Append(calls, Call("fetch", ok))
               /\ IF ~ok
                  THEN Finish(handleError(GhCliError)) /\ UNCHANGED context
                  ELSE IF ~Get(remote).exists
                  THEN Finish(handleError(JsError)) /\ UNCHANGED context
                  ELSE /\ context' = fetchIssueContext(Get(resolved), Get(remote))
                       /\ pc' = "decide"
                       /\ UNCHANGED <<output, exitCode>>
    /\ UNCHANGED <<inputVars, result, resolved>>

GetContext_ProceedsOnFailure ==
    /\ pc = "context"
    /\ cmd.family = "client"
    /\ IF operationNeedsContext(cmd.resource, ClientOperation(cmd))
       THEN \E ok \in BOOLEAN :
               /\ calls' = Append(calls, Call("fetch", ok))
               /\ context' = IF ~ok THEN ArgsContext(cmd, args)
                              ELSE IF cmd.resource = "issue"
                              THEN getIssueContext(args, Get(remote))
                              ELSE getPrContext(args, Get(remote))
               /\ pc' = "decide"
               /\ UNCHANGED <<output, exitCode>>
       ELSE /\ context' = ArgsContext(cmd, args)
            /\ pc' = "decide"
            /\ UNCHANGED <<calls, output, exitCode>>
    /\ UNCHANGED <<inputVars, result, resolved>>

\* The context of a gh-client function: fetched when operationNeedsContext
\* says so, built from the arguments otherwise
GetContext ==
    /\ pc = "context"
    /\ cmd.family = "client"
    /\ IF operationNeedsContext(cmd.resource, ClientOperation(cmd))
       THEN \E ok \in BOOLEAN :
               /\ calls' = Append(calls, Call("fetch", ok))
               /\ IF ok
                  THEN /\ context' = IF cmd.resource = "issue"
                                     THEN getIssueContext(args, Get(remote))
                                     ELSE getPrContext(args, Get(remote))
                       /\ pc' = "decide"
                       /\ UNCHANGED <<output, exitCode>>
                  ELSE Finish(handleError(GhCliError)) /\ UNCHANGED context
       ELSE /\ context' = ArgsContext(cmd, args)
            /\ pc' = "decide"
            /\ UNCHANGED <<calls, output, exitCode>>
    /\ UNCHANGED <<inputVars, result, resolved>>

\* getConfig() and ensurePermission(resource, operation, context) of a
\* gh-client function; loadConfig throws an Error on a missing or invalid file
EnsurePermission ==
    /\ pc = "decide"
    /\ cmd.family = "client"
    /\ \/ /\ Finish(handleError(JsError))
          /\ UNCHANGED result
       \/ /\ result' = Some(checkPermission(config, cmd.resource, ClientOperation(cmd),
                                            context))
          /\ IF ensurePermission(config, cmd.resource, ClientOperation(cmd), context).threw
             THEN Finish(handleError(ensurePermission(config, cmd.resource,
                                                      ClientOperation(cmd), context).value))
             ELSE pc' = "execute" /\ UNCHANGED <<output, exitCode>>
    /\ UNCHANGED <<inputVars, context, resolved, calls>>

\* loadConfig(), checkPermission(config, context), the dry-run branch and the
\* denial branch of issue edit
CheckEditPermission ==
    /\ pc = "decide"
    /\ cmd.family \in {"edit", "editEnforce"}
    /\ \/ /\ Finish(handleError(JsError))
          /\ UNCHANGED result
       \/ IF checkIssueEditPermission(config, context).threw
          THEN /\ Finish(handleError(checkIssueEditPermission(config, context).value))
               /\ UNCHANGED result
          ELSE /\ result' = Some(checkIssueEditPermission(config, context).value)
               /\ IF dryRun
                  THEN Finish(handleError(DryRunResult(
                                  checkIssueEditPermission(config, context).value)))
                  ELSE IF ~checkIssueEditPermission(config, context).value.allowed
                  THEN Finish(handleError(ErrorResponse("PERMISSION_DENIED")))
                  ELSE pc' = "execute" /\ UNCHANGED <<output, exitCode>>
    /\ UNCHANGED <<inputVars, context, resolved, calls>>

ExecGh_RetriesOnce ==
    /\ pc = "execute"
    /\ cmd.family \in {"client", "edit"}
    /\ \E ok \in BOOLEAN :
          /\ calls' = Append(calls, Call("primary", ok))
          /\ IF ok
             THEN /\ output' = Append(output, Payload("success", Undef, None))
                  /\ exitCode' = Some(0)
                  /\ pc' = "done"
             ELSE IF \E i \in 1..Len(calls) : calls[i].kind = "primary"
             THEN Finish(handleError(GhCliError))
             ELSE UNCHANGED <<pc, output, exitCode>>
    /\ UNCHANGED <<inputVars, context, result, resolved>>

\* The gh subprocess of the command itself and the printing of its outcome
ExecGh ==
    /\ pc = "execute"
    /\ cmd.family \in {"client", "edit"}
    /\ \E ok \in BOOLEAN :
          /\ calls' = Append(calls, Call("primary", ok))
          /\ IF ok
             THEN /\ output' = Append(output, Payload("success", Undef, None))
                  /\ exitCode' = Some(0)
                  /\ pc' = "done"
             ELSE Finish(handleError(GhCliError))
    /\ UNCHANGED <<inputVars, context, result, resolved>>

\* The context literal of issue create
SynthesizeContext ==
    /\ pc = "context"
    /\ cmd.family = "create"
    /\ context' = CreateContext(Get(resolved))
    /\ pc' = "decide"
    /\ UNCHANGED <<inputVars, result, resolved, calls, output, exitCode>>

\* loadConfig(), checkPermission(config, context), the dry-run branch and the
\* denial branch of issue create
CheckCreatePermission ==
    /\ pc = "decide"
    /\ cmd.family = "create"
    /\ \/ /\ Finish(handleError(JsError))
          /\ UNCHANGED result
       \/ IF checkIssueCreatePermission(config, context).threw
          THEN /\ Finish(handleError(checkIssueCreatePermission(config, context).value))
               /\ UNCHANGED result
          ELSE /\ result' = Some(checkIssueCreatePermission(config, context).value)
               /\ IF dryRun
                  THEN Finish(handleError(DryRunResult(
                                  checkIssueCreatePermission(config, context).value)))
                  ELSE IF ~checkIssueCreatePermission(config, context).value.allowed
                  THEN Finish(handleError(ErrorResponse("PERMISSION_DENIED")))
                  ELSE pc' = "execute" /\ UNCHANGED <<output, exitCode>>
    /\ UNCHANGED <<inputVars, context, resolved, calls>>

\* outputJson({success: true, ...}) and the normal end of the process
Succeed ==
    /\ output' = Append(output, Payload("success", Undef, None))
    /\ exitCode' = Some(0)
    /\ pc' = "done"

\* buildEnforceArgs(result.enforce, config.selfUserId) under if (result.enforce)
EnforceArgsOf(decision, selfUserId) ==
    IF IsSome(decision.enforce)
    THEN buildEnforceArgs(Get(decision.enforce), selfUserId)
    ELSE Returned(<<>>)

\* issue edit of commands/issue.ts: the enforce arguments are appended to the
\* arguments of the one gh issue edit call
ExecEditWithEnforce ==
    /\ pc = "execute"
    /\ cmd.family = "editEnforce"
    /\ IF EnforceArgsOf(Get(result), config.selfUserId).threw
       THEN /\ Finish(handleError(EnforceArgsOf(Get(result), config.selfUserId).value))
            /\ UNCHANGED calls
       ELSE \E ok \in BOOLEAN :
               /\ calls' = Append(calls,
                                  CallWith("primary", ok,
                                           EnforceArgsOf(Get(result), config.selfUserId).value))
               /\ IF ok THEN Succeed ELSE Finish(handleError(GhCliError))
    /\ UNCHANGED <<inputVars, context, result, resolved>>

\* issue create: gh issue create, then buildEnforceArgs and the issue number
\* taken from the printed URL
ExecCreate_EnforcesRegardless ==
    /\ pc = "execute"
    /\ cmd.family = "create"
    /\ \E ok \in BOOLEAN :
          /\ calls' = Append(calls, Call("primary", ok))
          /\ IF ~IsSome(Get(result).enforce)
             THEN IF ok THEN Succeed ELSE Finish(handleError(GhCliError))
             ELSE IF EnforceArgsOf(Get(result), config.selfUserId).threw
             THEN Finish(handleError(EnforceArgsOf(Get(result), config.selfUserId).value))
             ELSE IF EnforceArgsOf(Get(result), config.selfUserId).value = <<>> THEN Succeed
             ELSE pc' = "enforce" /\ UNCHANGED <<output, exitCode>>
    /\ UNCHANGED <<inputVars, context, result, resolved>>
ExecCreate ==
    /\ pc = "execute"
    /\ cmd.family = "create"
    /\ \E ok \in BOOLEAN :
          /\ calls' = Append(calls, Call("primary", ok))
          /\ IF ~ok THEN Finish(handleError(GhCliError))
             ELSE IF ~IsSome(Get(result).enforce) THEN Succeed
             ELSE IF EnforceArgsOf(Get(result), config.selfUserId).threw
             THEN Finish(handleError(EnforceArgsOf(Get(result), config.selfUserId).value))
             ELSE IF EnforceArgsOf(Get(result), config.selfUserId).value = <<>> THEN Succeed
             ELSE \E urlHasNumber \in BOOLEAN :
                     IF ~urlHasNumber
                     THEN Finish(handleError(ErrorResponse("ENFORCE_ERROR")))
                     ELSE pc' = "enforce" /\ UNCHANGED <<output, exitCode>>
    /\ UNCHANGED <<inputVars, context, result, resolved>>

\* issue create: gh issue edit <number> with the enforce arguments
ApplyEnforce_Unwrapped ==
    /\ pc = "enforce"
    /\ \E ok \in BOOLEAN :
          /\ calls' = Append(calls,
                             CallWith("enforce", ok,
                                      EnforceArgsOf(Get(result), config.selfUserId).value))
          /\ IF ok THEN Succeed
             ELSE Finish(handleError(GhCliError))
    /\ UNCHANGED <<inputVars, context, result, resolved>>
ApplyEnforce ==
    /\ pc = "enforce"
    /\ \E ok \in BOOLEAN :
          /\ calls' = Append(calls,
                             CallWith("enforce", ok,
                                      EnforceArgsOf(Get(result), config.selfUserId).value))
          /\ IF ok THEN Succeed
             ELSE Finish(handleError(ErrorResponse("ENFORCE_ERROR")))
    /\ UNCHANGED <<inputVars, context, result, resolved>>

\* The command:* handlers of index.ts: an unsupported subcommand is reported
\* and the process exits with status 1
UnsupportedCommand ==
    /\ pc = "start"
    /\ cmd.family = "unsupported"
    /\ output' = Append(output, Payload("error", "UNSUPPORTED_COMMAND", None))
    /\ exitCode' = Some(1)
    /\ pc' = "done"
    /\ UNCHANGED <<inputVars, context, result, resolved, calls>>

\* The second reference of a linking command, parsed against the resolved repo
ChildRef == parseIssueRef(args.ref, Get(resolved))

\* parseIssueRef(child, repo) and fetchIssueContext(parentIssueNumber, repo)
\* of a linking command
FetchLinkContext ==
    /\ pc = "context"
    /\ cmd.family = "link"
    /\ IF ChildRef.threw
       THEN /\ Finish(handleError(ChildRef.value))
            /\ UNCHANGED <<calls, context>>
       ELSE IF FirstSegment(Get(resolved)) = <<>> \/ SecondSegment(Get(resolved)) = <<>>
       THEN /\ Finish(handleError(JsError))
            /\ UNCHANGED <<calls, context>>
       ELSE \E ok \in BOOLEAN :
               /\ calls' = Append(calls, Call("fetch", ok))
               /\ IF ~ok
                  THEN Finish(handleError(GhCliError)) /\ UNCHANGED context
                  ELSE IF ~Get(remote).exists
                  THEN Finish(handleError(JsError)) /\ UNCHANGED context
                  ELSE /\ context' = fetchIssueContext(Get(resolved), Get(remote))
                       /\ pc' = "decide"
                       /\ UNCHANGED <<output, exitCode>>
    /\ UNCHANGED <<inputVars, result, resolved>>

\* loadConfig(), checkPermission(config, context), the dry-run branch, the
\* denial branch and the allowedOwners check of a cross-repo second reference
CheckLinkPermission ==
    /\ pc = "decide"
    /\ cmd.family = "link"
    /\ \/ /\ Finish(handleError(JsError))
          /\ UNCHANGED result
       \/ LET r == checkLinkPermission(config, cmd, context)
              refusal == LinkRefusal(config, r.value, ChildRef.value.repo, Get(resolved))
          IN  IF r.threw
              THEN /\ Finish(handleError(r.value))
                   /\ UNCHANGED result
              ELSE /\ result' = Some(r.value)
                   /\ IF dryRun THEN Finish(handleError(DryRunResult(r.value)))
                      ELSE IF IsSome(refusal) THEN Finish(handleError(Get(refusal)))
                      ELSE pc' = "nodeParent" /\ UNCHANGED <<output, exitCode>>
    /\ UNCHANGED <<inputVars, context, resolved, calls>>

\* fetchIssueNodeId(parentIssueNumber, repo), then
\* fetchIssueNodeId(childRef.number, childRef.repo): gh fails, or answers with
\* errors, with a null issue or with the node id
FetchIssueNodeId ==
    /\ pc \in {"nodeParent", "nodeChild"}
    /\ LET rp == IF pc = "nodeParent" THEN Get(resolved) ELSE ChildRef.value.repo
           kind == IF pc = "nodeParent" THEN "nodeIdParent" ELSE "nodeIdChild"
       IN  IF FirstSegment(rp) = <<>> \/ SecondSegment(rp) = <<>>
           THEN /\ Finish(handleError(JsError))
                /\ UNCHANGED calls
           ELSE \E answer \in {"failed", "errors", "null", "id"} :
                   /\ calls' = Append(calls, Call(kind, answer # "failed"))
                   /\ CASE answer = "failed" -> Finish(handleError(GhCliError))
                        [] answer = "errors" ->
                               Finish(handleError(ErrorResponse("GRAPHQL_ERROR")))
                        [] answer = "null" -> Finish(handleError(JsError))
                        [] answer = "id" ->
                               /\ pc' = IF pc = "nodeParent" THEN "nodeChild" ELSE "execute"
                               /\ UNCHANGED <<output, exitCode>>
    /\ UNCHANGED <<inputVars, context, result, resolved>>

\* execGraphQLMutation of a linking command and the printing of its outcome
ExecLink ==
    /\ pc = "execute"
    /\ cmd.family = "link"
    /\ \E answer \in {"failed", "errors", "data"} :
          /\ calls' = Append(calls, Call("primary", answer # "failed"))
          /\ CASE answer = "failed" -> Finish(handleError(GhCliError))
               [] answer = "errors" -> Finish(handleError(ErrorResponse("GRAPHQL_ERROR")))
               [] answer = "data" -> Succeed
    /\ UNCHANGED <<inputVars, context, result, resolved>>

Next ==
    \/ Validate
    \/ ResolveRepo
    \/ FetchIssueContext
    \/ GetContext
    \/ EnsurePermission
    \/ CheckEditPermission
    \/ ExecGh
    \/ SynthesizeContext
    \/ CheckCreatePermission
    \/ ExecEditWithEnforce
    \/ ExecCreate
    \/ ApplyEnforce
    \/ UnsupportedCommand
    \/ FetchLinkContext
    \/ CheckLinkPermission
    \/ FetchIssueNodeId
    \/ ExecLink

Spec == Init /\ [][Next]_vars

\* ------------------------------------------------------------------
\* Reference: glob matching with * as the only special character
\* ------------------------------------------------------------------

RECURSIVE GlobMatch(_, _)
GlobMatch(p, s) ==
    IF p = <<>> THEN s = <<>>
    ELSE IF Head(p) = "*"
         THEN \E k \in 0..Len(s) : GlobMatch(Tail(p), SubSeq(s, k + 1, Len(s)))
         ELSE s # <<>> /\ Head(p) = Head(s) /\ GlobMatch(Tail(p), Tail(s))

\* ------------------------------------------------------------------
\* Claims about the condition evaluator
\* ------------------------------------------------------------------

SelfConfigured == config.selfUserId # Undef /\ config.selfUserId # ""
\* the author of the resource the context describes
ContextAuthor == IF resource = "issue" THEN context.issueAuthor ELSE context.prAuthor
HasSelfPredicate(c) == c.createdBy = "self" \/ c.assignee = "self"

\* C7: createdBy="self" holds iff selfUserId is configured and equals the
\* context author; assignee="self" holds iff selfUserId is configured and is
\* one of the context's assignees; with selfUserId absent or empty every
\* condition that contains a self predicate evaluates false.
C7_SelfFailClosed ==
    (IsSome(met) /\ resource \in {"issue", "pr"}) =>
        /\ condition = [EmptyCondition EXCEPT !.createdBy = "self"] =>
               (Get(met) <=> (SelfConfigured /\ ContextAuthor = config.selfUserId))
        /\ condition = [EmptyCondition EXCEPT !.assignee = "self"] =>
               (Get(met) <=> (/\ SelfConfigured
                              /\ config.selfUserId \in SetOf(OrEmpty(context.assignees))))
        /\ (HasSelfPredicate(condition) /\ ~SelfConfigured) => Get(met) = FALSE

\* C7 witness: createdBy="self" evaluated with selfUserId "" against an
\* issue whose author is "" as well, and rejected.
C7_Witness ==
    /\ IsSome(met)
    /\ condition.createdBy = "self"
    /\ config.selfUserId = ""
    /\ ContextAuthor = ""
    /\ Get(met) = FALSE

\* The sub-predicates of a condition, each true when its key is absent.
HoldsCreatedBy ==
    condition.createdBy = "self" => (SelfConfigured /\ ContextAuthor = config.selfUserId)
HoldsAssignee ==
    condition.assignee = "self" =>
        (SelfConfigured /\ config.selfUserId \in SetOf(OrEmpty(context.assignees)))
HoldsLabelsInclude ==
    (IsSome(condition.labels) /\ NonEmptyList(Get(condition.labels).include)) =>
        SetOf(Get(Get(condition.labels).include)) \cap SetOf(OrEmpty(context.labels)) # {}
HoldsLabelsExclude ==
    (IsSome(condition.labels) /\ NonEmptyList(Get(condition.labels).exclude)) =>
        SetOf(Get(Get(condition.labels).exclude)) \cap SetOf(OrEmpty(context.labels)) = {}
HoldsRepos ==
    NonEmptyList(condition.repos) =>
        (TruthyS(context.repo) /\ Get(context.repo) \in SetOf(Get(condition.repos)))
HoldsOwners ==
    NonEmptyList(condition.owners) =>
        (TruthyS(context.repo)
            /\ FirstSegment(Get(context.repo)) \in SetOf(Get(condition.owners)))
HoldsDraft ==
    IsSome(condition.draft) => context.draft = condition.draft
HoldsBaseBranch ==
    NonEmptyList(condition.baseBranch) =>
        (TruthyS(context.baseBranch)
            /\ \E p \in SetOf(Get(condition.baseBranch)) : GlobMatch(p, Get(context.baseBranch)))
HoldsHeadBranch ==
    NonEmptyList(condition.headBranch) =>
        (TruthyS(context.headBranch)
            /\ \E p \in SetOf(Get(condition.headBranch)) : GlobMatch(p, Get(context.headBranch)))
HoldsReviewDecision ==
    condition.reviewDecision # Undef => context.reviewDecision = condition.reviewDecision
HoldsProjectOwner ==
    NonEmptyList(condition.owner) =>
        (TruthyS(context.projectOwner)
            /\ Get(context.projectOwner) \in SetOf(Get(condition.owner)))
HoldsProjectNumbers ==
    NonEmptyList(condition.projectNumbers) =>
        (IsSome(context.projectNumber)
            /\ Get(context.projectNumber) \in SetOf(Get(condition.projectNumbers)))

HoldsCommon ==
    /\ HoldsCreatedBy /\ HoldsAssignee /\ HoldsLabelsInclude /\ HoldsLabelsExclude
    /\ HoldsRepos /\ HoldsOwners
EverySubPredicateHolds ==
    CASE resource = "issue" -> HoldsCommon
      [] resource = "pr" ->
            /\ HoldsCommon /\ HoldsDraft /\ HoldsBaseBranch /\ HoldsHeadBranch
            /\ HoldsReviewDecision
      [] resource = "search" -> HoldsRepos /\ HoldsOwners
      [] resource = "project" -> HoldsProjectOwner /\ HoldsProjectNumbers

CondLabelXOwnerA ==
    [EmptyCondition EXCEPT !.labels = Some(LabelCond(Some(<<"x">>), None)),
                           !.owners = Some(<<OwnerA>>)]

\* C8: a condition evaluates true iff every sub-predicate it specifies holds
\* on the context; the condition labels.include=[x], owners=[a] matches
\* exactly the contexts that carry label x and whose repo owner is a.
C8_AndSemantics ==
    IsSome(met) =>
        /\ Get(met) <=> EverySubPredicateHolds
        /\ (resource = "issue" /\ condition = CondLabelXOwnerA) =>
               (Get(met) <=> (/\ "x" \in SetOf(OrEmpty(context.labels))
                              /\ context.repo = Some(RepoAX)))

\* C8 witness: labels.include=[x], owners=[a] evaluated on a context that
\* carries label x but belongs to another owner, and rejected.
C8_Witness ==
    /\ IsSome(met)
    /\ resource = "issue"
    /\ condition = CondLabelXOwnerA
    /\ "x" \in SetOf(OrEmpty(context.labels))
    /\ context.repo = Some(RepoBX)
    /\ Get(met) = FALSE

\* ------------------------------------------------------------------
\* Claims about the owner gate and the rule matcher
\* ------------------------------------------------------------------

\* text occurs in message as a contiguous run of pieces
Mentions(message, text) ==
    \E i \in 0..(Len(message) - Len(text)) : SubSeq(message, i + 1, i + Len(text)) = text

RequestRules == getRulesForResource(config, resource)
AllRuleListsEmpty ==
    /\ config.issueRules = <<>> /\ config.prRules = <<>>
    /\ config.searchRules = <<>> /\ config.projectRules = <<>>

\* Rule i lists the requested operation and its condition is absent or true.
RuleMatches(i) ==
    /\ operation \in SetOf(RequestRules[i].operations)
    /\ \/ ~IsSome(RequestRules[i].condition)
       \/ checkConditionForResource(resource, Get(RequestRules[i].condition), context,
                                    config.selfUserId)

\* C2: with a non-empty allowedOwners, an issue/PR request whose repo's first
\* path segment is not in allowedOwners is denied whatever the rules and the
\* default permission are, the decision has no ruleName and its reason names
\* the offending owner and the allow-list.
C2_OwnerGatePrecedence ==
    (/\ IsSome(result)
     /\ resource \in {"issue", "pr"}
     /\ NonEmptyList(config.allowedOwners)
     /\ TruthyS(context.repo)
     /\ FirstSegment(Get(context.repo)) \notin SetOf(Get(config.allowedOwners)))
    => /\ Get(result).allowed = FALSE
       /\ Get(result).ruleName = Undef
       /\ Mentions(Get(result).reason, FirstSegment(Get(context.repo)))
       /\ \A o \in SetOf(Get(config.allowedOwners)) : Mentions(Get(result).reason, o)

\* C3: when the matcher allows by a rule, the returned ruleName is the name
\* of the lowest-index rule that lists the operation and whose condition is
\* absent or true.
C3_FirstMatch ==
    (IsSome(result) /\ Get(result).allowed /\ Get(result).ruleName # Undef) =>
        \E i \in 1..Len(RequestRules) :
            /\ RuleMatches(i)
            /\ \A j \in 1..(i - 1) : ~RuleMatches(j)
            /\ Get(result).ruleName = RequestRules[i].name
            /\ \A j \in (i + 1)..Len(RequestRules) :
                   RequestRules[j].name # RequestRules[i].name

\* C3 witness: two rules both match the request and the first one is returned.
C3_Witness ==
    /\ IsSome(result)
    /\ Len(RequestRules) >= 2
    /\ RuleMatches(1) /\ RuleMatches(2)
    /\ IsSome(RequestRules[2].condition)
    /\ Get(result).allowed
    /\ Get(result).ruleName = RequestRules[1].name

\* C4: with the four rule lists empty and defaultPermission=deny, every
\* operation of every resource type is denied for every context.
C4_EmptyDenyAll ==
    (IsSome(result) /\ AllRuleListsEmpty /\ config.defaultPermission = "deny") =>
        Get(result).allowed = FALSE

\* C4 witness: a read operation decided under empty rule lists, deny default
\* and no allowedOwners, and denied.
C4_Witness ==
    /\ IsSome(result)
    /\ AllRuleListsEmpty
    /\ config.defaultPermission = "deny"
    /\ config.allowedOwners = None
    /\ operation = "view"
    /\ Get(result).allowed = FALSE

\* C10: with a non-empty allowedOwners, an issue or PR request that carries
\* no repo is denied independently of any rule, with a reason that tells the
\* caller to specify the repository with -R owner/repo.
C10_RepoRequired ==
    (/\ IsSome(result)
     /\ resource \in {"issue", "pr"}
     /\ NonEmptyList(config.allowedOwners)
     /\ ~TruthyS(context.repo))
    => /\ Get(result).allowed = FALSE
       /\ Get(result).ruleName = Undef
       /\ Includes(Get(result).reason, "-R owner/repo")

\* C10 witness: an issue request without repo that an unconditional rule
\* would allow, denied by the gate.
C10_Witness ==
    /\ IsSome(result)
    /\ resource = "issue"
    /\ NonEmptyList(config.allowedOwners)
    /\ context.repo = None
    /\ Len(RequestRules) >= 1
    /\ ~IsSome(RequestRules[1].condition)
    /\ operation \in SetOf(RequestRules[1].operations)
    /\ Get(result).allowed = FALSE

\* C9: matchBranchPattern(branch, pattern) is true iff branch is obtained
\* from pattern by replacing each * with a possibly empty run of characters,
\* every other pattern character matching only itself.
C9_BranchIsGlob ==
    IsSome(matched) => (Get(matched) = GlobMatch(pattern, branch))

\* ------------------------------------------------------------------
\* Properties of the command pipelines
\* ------------------------------------------------------------------

PrimaryIssued == \E i \in 1..Len(calls) : calls[i].kind = "primary"
Denied == IsSome(result) /\ ~Get(result).allowed
PermissionDeniedPayload == Payload("error", "PERMISSION_DENIED", None)

\* C1: in a non-dry-run invocation the primary gh call is issued only once a
\* decision has been computed and only if it allows; a denying decision ends
\* the invocation with the PERMISSION_DENIED payload and no primary call.
C1_DecisionBeforePrimaryCall ==
    ~dryRun =>
        /\ PrimaryIssued => IsSome(result) /\ Get(result).allowed
        /\ Denied => /\ pc = "done"
                     /\ output = <<PermissionDeniedPayload>>
                     /\ exitCode = Some(1)
                     /\ ~PrimaryIssued

\* A denied issue edit that had fetched its context, and ended
C1_Witness ==
    /\ ~dryRun
    /\ cmd = EditCommand
    /\ Denied
    /\ pc = "done"
    /\ calls = <<Call("fetch", TRUE)>>
    /\ output = <<PermissionDeniedPayload>>

\* C5: with all rule lists empty and defaultPermission=read (and no
\* allowedOwners), a command is allowed if and only if its operation name is
\* one of list, view, list:comments, diff, checks, field:list, item:list.
C5_DefaultReadCommands ==
    (/\ cmd.family = "client"
     /\ IsSome(result)
     /\ AllRuleListsEmpty
     /\ config.defaultPermission = "read"
     /\ ~NonEmptyList(config.allowedOwners))
    => (Get(result).allowed <=> cmd.name \in SetOf(readOperations))

\* Rule i lists the command's operation name and its condition is absent or true.
RuleMatchesCommand(i) ==
    /\ cmd.name \in SetOf(RequestRules[i].operations)
    /\ \/ ~IsSome(RequestRules[i].condition)
       \/ checkConditionForResource(resource, Get(RequestRules[i].condition), context,
                                    config.selfUserId)

\* C6: a rule matches a command if and only if the command's operation is in
\* the rule's operations and its condition is absent or true; so, when the
\* owner gate raises no objection, a decision is by rule i exactly when i is
\* the first such rule, and an unconditional first rule that lists the
\* command's operation allows the command under its own name.
C6_RuleMatchesCommand ==
    (/\ cmd.family = "client"
     /\ IsSome(result)
     /\ ~IsSome(checkAllowedOwners(config, resource, context)))
    => /\ \A i \in 1..Len(RequestRules) :
             (Get(result).ruleName = RequestRules[i].name)
                 <=> (RuleMatchesCommand(i) /\ \A j \in 1..(i - 1) : ~RuleMatchesCommand(j))
       /\ (/\ Len(RequestRules) > 0
           /\ ~IsSome(RequestRules[1].condition)
           /\ cmd.name \in SetOf(RequestRules[1].operations))
          => Get(result) = Decision(TRUE, RequestRules[1].name,
                                    <<"Allowed by rule '", RequestRules[1].name, "'">>)

\* ------------------------------------------------------------------
\* Transparency of the owner gate
\* ------------------------------------------------------------------

\* The cases in which the gate is said to have no objection
GateHasNoObjection ==
    \/ ~NonEmptyList(config.allowedOwners)
    \/ resource = "project" /\ ~TruthyS(context.projectOwner)
    \/ resource = "search" /\ ~TruthyS(context.repo)
    \/ /\ resource = "project"
       /\ TruthyS(context.projectOwner)
       /\ Get(context.projectOwner) \in SetOf(Get(config.allowedOwners))
    \/ /\ resource # "project"
       /\ TruthyS(context.repo)
       /\ FirstSegment(Get(context.repo)) \in SetOf(Get(config.allowedOwners))

\* The decision of the rule matcher and the default-permission fallback for
\* the same config with allowedOwners removed
WithoutAllowedOwners ==
    checkPermission([config EXCEPT !.allowedOwners = None], resource, operation, context)

\* C11: whenever allowedOwners is unset or empty, or the resource is project
\* with unknown projectOwner, or search with no repo, or the derived owner is
\* in allowedOwners, the decision (allowed, ruleName, reason) is exactly the
\* one the rules and the default permission give without allowedOwners.
C11_GateTransparent ==
    (IsSome(result) /\ GateHasNoObjection) => Get(result) = WithoutAllowedOwners

\* C11 witness: allowedOwners is configured, the repo's owner is a member, and
\* the request is denied by the default permission as it would be without it.
C11_Witness ==
    /\ IsSome(result)
    /\ NonEmptyList(config.allowedOwners)
    /\ resource = "issue"
    /\ context.repo = Some(RepoAX)
    /\ RequestRules # <<>>
    /\ Get(result) = Decision(FALSE, Undef,
                              <<"No matching rule and default permission is deny">>)

\* ------------------------------------------------------------------
\* The context resolver table
\* ------------------------------------------------------------------

\* The operations said to target an existing, identified resource
TargetingOperations ==
    {"update", "close", "reopen", "delete", "merge", "review", "update-branch",
     "comment", "comment:edit", "comment:delete"}
ListingOrCreationOperations ==
    {"list", "list:comments", "field:list", "item:list", "create", "item:create",
     "field:create"}
FetchIssued == \E i \in 1..Len(calls) : calls[i].kind = "fetch"

\* C12 as stated: for every (resource, operation) pair whose operation is one
\* of update, close, reopen, delete, merge, review, update-branch, comment,
\* comment:edit, comment:delete, operationNeedsContext reports that a fetch is
\* required, and for every listing or creation operation that none is.
C12_ContextTable ==
    cmd.family = "client" =>
        /\ cmd.name \in TargetingOperations
              => operationNeedsContext(cmd.resource, cmd.name)
        /\ cmd.name \in ListingOrCreationOperations
              => ~operationNeedsContext(cmd.resource, cmd.name)

\* C12 amended: operationNeedsContext reports a fetch exactly for the issue
\* and pull-request operations of that list; for every other pair (listing,
\* creation, every project and every search operation) it reports none, and
\* a gh-client command has fetched before its decision exactly in those cases.
C12_ContextTableIssuePr ==
    cmd.family = "client" =>
        /\ operationNeedsContext(cmd.resource, cmd.name)
              <=> (cmd.resource \in {"issue", "pr"} /\ cmd.name \in TargetingOperations)
        /\ pc \in {"decide", "execute"}
              => (FetchIssued <=> (/\ cmd.resource \in {"issue", "pr"}
                                   /\ cmd.name \in TargetingOperations))

\* C12 witness: pr merge has fetched the pull request and awaits its decision
C12_Witness ==
    /\ cmd = Command("client", "pr", "merge")
    /\ pc = "decide"
    /\ calls = <<Call("fetch", TRUE)>>
    /\ context.prAuthor = Get(remote).author

\* ------------------------------------------------------------------
\* The context fetch
\* ------------------------------------------------------------------

\* The command's operation requires a fetched context
RequiresContext ==
    \/ cmd.family = "client" /\ operationNeedsContext(cmd.resource, ClientOperation(cmd))
    \/ cmd.family \in {"edit", "editEnforce", "link"}
FetchCount == Cardinality({i \in 1..Len(calls) : calls[i].kind = "fetch"})
FetchFailed == \E i \in 1..Len(calls) : calls[i].kind = "fetch" /\ ~calls[i].ok
EnforceIssued ==
    \E i \in 1..Len(calls) : calls[i].kind = "enforce" \/ calls[i].args # <<>>

\* C13: for an operation that requires context, the fetch is issued at most
\* once, a decision exists only after exactly one fetch that succeeded, and a
\* failed fetch leaves no decision, no primary call and no enforcement call,
\* and ends the invocation with one error payload and exit status 1.
C13_FetchOnceBeforeDecision ==
    RequiresContext =>
        /\ FetchCount <= 1
        /\ IsSome(result) => (FetchCount = 1 /\ ~FetchFailed)
        /\ FetchFailed => /\ result = None
                          /\ ~PrimaryIssued
                          /\ ~EnforceIssued
                          /\ pc = "done"
                          /\ Len(output) = 1
                          /\ output[1].kind = "error"
                          /\ exitCode = Some(1)

\* C13 witness: issue close whose fetch of the issue failed
C13_Witness ==
    /\ cmd = Command("client", "issue", "close")
    /\ calls = <<Call("fetch", FALSE)>>
    /\ result = None
    /\ output = <<Payload("error", "GH_CLI_ERROR", None)>>
    /\ exitCode = Some(1)

\* ------------------------------------------------------------------
\* Create requests and "self" conditions
\* ------------------------------------------------------------------

IsCreate == cmd.family \in {"client", "create"} /\ cmd.name = "create"
\* The rule list a create command is decided by
CreateRules ==
    IF cmd.family = "create" THEN config.issueCreate ELSE RequestRules
NamesSelf(rule) ==
    /\ IsSome(rule.condition)
    /\ \/ Get(rule.condition).createdBy = "self"
       \/ Get(rule.condition).assignee = "self"
\* The condition of rule i evaluated on the context the command has built
MatchesCreateContext(i) ==
    IF cmd.family = "create"
    THEN checkIssueCondition(Get(CreateRules[i].condition), context,
                             config.selfUserId) = "true"
    ELSE checkConditionForResource(resource, Get(CreateRules[i].condition), context,
                                   config.selfUserId)

\* The command has built its context
ContextBuilt == pc \in {"decide", "execute", "enforce"} \/ IsSome(result)

\* C14: a create request carries a locally built context without author and
\* assignees, so whatever the config and selfUserId (unset, empty or set), a
\* rule whose condition has createdBy="self" or assignee="self" does not
\* match it and is never the rule of its decision.
C14_SelfNeverMatchesCreate ==
    (IsCreate /\ ContextBuilt)
    => \A i \in 1..Len(CreateRules) :
          NamesSelf(CreateRules[i])
              => /\ ~MatchesCreateContext(i)
                 /\ IsSome(result) => Get(result).ruleName # CreateRules[i].name

\* C14 witness: issue create with selfUserId "bot" and the single rule
\* createdBy="self", denied by the default
C14_Witness ==
    /\ cmd = CreateCommand
    /\ config.selfUserId = "bot"
    /\ Len(config.issueCreate) = 1
    /\ NamesSelf(config.issueCreate[1])
    /\ IsSome(result)
    /\ ~Get(result).allowed
    /\ Get(result).ruleName = Undef
    /\ pc = "done"

\* ------------------------------------------------------------------
\* Enforcement
\* ------------------------------------------------------------------

PrimaryFailed == \E i \in 1..Len(calls) : calls[i].kind = "primary" /\ ~calls[i].ok
\* Call i applies an enforce directive
AppliesEnforce(i) == calls[i].kind = "enforce" \/ calls[i].args # <<>>

EnforceNamesSelf ==
    /\ IsSome(result)
    /\ Get(result).allowed
    /\ IsSome(Get(result).enforce)
    /\ \/ Includes(OrEmpty(Get(Get(result).enforce).addAssignees), "self")
       \/ Includes(OrEmpty(Get(Get(result).enforce).removeAssignees), "self")

\* C16: when the matched rule's enforce directive names "self" and selfUserId
\* is not configured, the invocation fails with CONFIG_ERROR before any
\* mutation: no primary call and no enforcement call has been issued.
C16_ConfigErrorBeforeMutation ==
    (/\ cmd.family \in {"editEnforce", "create"}
     /\ ~dryRun
     /\ EnforceNamesSelf
     /\ ~Truthy(config.selfUserId))
    => /\ ~PrimaryIssued
       /\ ~EnforceIssued
       /\ pc = "done" => /\ output = <<Payload("error", "CONFIG_ERROR", None)>>
                         /\ exitCode = Some(1)

\* The primary call succeeded and the enforcement call after it failed
EnforceFailedAfterPrimary ==
    \E i, j \in 1..Len(calls) :
        /\ i < j
        /\ calls[i].kind = "primary" /\ calls[i].ok
        /\ calls[j].kind = "enforce" /\ ~calls[j].ok

\* C17: when the primary call succeeded and the enforcement call fails, the
\* invocation ends with the single error payload ENFORCE_ERROR and exit
\* status 1, neither success nor PERMISSION_DENIED, and no further call
\* follows that would undo the primary action.
C17_EnforceErrorOutcome ==
    EnforceFailedAfterPrimary
    => /\ pc = "done"
       /\ output = <<Payload("error", "ENFORCE_ERROR", None)>>
       /\ exitCode = Some(1)
       /\ calls[Len(calls)].kind = "enforce"
       /\ Cardinality({i \in 1..Len(calls) : calls[i].kind \in {"primary", "enforce"}}) = 2

\* C17 witness: issue create, created, whose gh issue edit for enforce failed
C17_Witness ==
    /\ cmd = CreateCommand
    /\ EnforceFailedAfterPrimary
    /\ Get(result).allowed
    /\ exitCode = Some(1)

\* ------------------------------------------------------------------
\* Dry-run and exit status
\* ------------------------------------------------------------------

\* C18: with dry-run enabled, every guarded command computes its decision
\* (after any required context fetch), emits the decision with the context
\* as its only payload, and issues neither the primary call nor an
\* enforcement call, whether the decision allows or denies.
C18_DryRunIssuesNoMutation ==
    dryRun =>
        /\ ~PrimaryIssued
        /\ ~EnforceIssued
        /\ IsSome(result)
              => /\ pc = "done"
                 /\ output = <<Payload("dryRun", Undef, Some(Get(result).allowed))>>
                 /\ RequiresContext => (FetchCount = 1 /\ ~FetchFailed)

\* C19: whenever dry-run is enabled and a decision has been computed, the
\* process exits with status 0, for allowed=true and for allowed=false alike;
\* in normal mode a denying decision always ends with a nonzero status.
C19_ExitStatus ==
    (IsSome(result) /\ pc = "done")
    => /\ dryRun => exitCode = Some(0)
       /\ (~dryRun /\ ~Get(result).allowed) => (IsSome(exitCode) /\ Get(exitCode) # 0)

\* ------------------------------------------------------------------
\* Failures at the command boundary
\* ------------------------------------------------------------------

AnyCallFailed == \E i \in 1..Len(calls) : ~calls[i].ok
OneErrorPayloadAndExit1 ==
    /\ pc = "done"
    /\ Len(output) = 1
    /\ output[1].kind = "error"
    /\ exitCode = Some(1)

\* C20: a failed external call (repo resolution, context fetch, primary
\* execution, enforcement) and a failed config load each end the invocation
\* with exactly one error payload and exit status 1; an invocation that has
\* ended has printed exactly one payload, one that has not has printed none.
C20_OneErrorPayload ==
    /\ AnyCallFailed => OneErrorPayloadAndExit1
    /\ (pc = "done" /\ result = None) => OneErrorPayloadAndExit1
    /\ pc = "done" => (Len(output) = 1 /\ IsSome(exitCode))
    /\ pc # "done" => (output = <<>> /\ exitCode = None)

\* C20 witness: issue list, which takes no number and makes no call before
\* its decision, ended by the failure of loadConfig
C20_Witness ==
    /\ cmd = Command("client", "issue", "list")
    /\ pc = "done"
    /\ calls = <<>>
    /\ result = None
    /\ output = <<Payload("error", "UNKNOWN_ERROR", None)>>
    /\ exitCode = Some(1)

\* ------------------------------------------------------------------
\* C21: the condition evaluator and the rule matcher are total
\* ------------------------------------------------------------------

\* The call of the rule engine the command makes on the context it built
EngineCall ==
    CASE cmd.family \in {"edit", "editEnforce"} -> checkIssueEditPermission(config, context)
      [] cmd.family = "create" -> checkIssueCreatePermission(config, context)
      [] cmd.family = "link" -> checkLinkPermission(config, cmd, context)
      [] OTHER -> Returned(checkPermission(config, cmd.resource, ClientOperation(cmd),
                                           context))

\* C21: on every context the command layer builds, and for every condition
\* and selfUserId, the evaluation of the rules returns a Decision and never
\* throws.
C21_EvaluationTotal ==
    pc = "decide" => ~EngineCall.threw

\* ------------------------------------------------------------------
\* C22: rule lists are isolated per resource type
\* ------------------------------------------------------------------

\* The configuration with the lists of the resources other than res replaced:
\* emptied, or set to one rule that allows every operation of its resource
WithOtherLists(cfg, res, filler) ==
    [cfg EXCEPT
        !.issueRules = IF res = "issue" THEN @
                       ELSE IF filler THEN AllowAll("issue") ELSE <<>>,
        !.prRules = IF res = "pr" THEN @
                    ELSE IF filler THEN AllowAll("pr") ELSE <<>>,
        !.searchRules = IF res = "search" THEN @
                        ELSE IF filler THEN AllowAll("search") ELSE <<>>,
        !.projectRules = IF res = "project" THEN @
                         ELSE IF filler THEN AllowAll("project") ELSE <<>>]

\* Some rule of another resource's list names the requested operation
OtherListNamesOperation ==
    \E other \in ResourceTypes \ {resource} :
       \E i \in 1..Len(getRulesForResource(config, other)) :
          Includes(getRulesForResource(config, other)[i].operations, operation)

\* C22: the Decision for a request on a resource depends only on that
\* resource's own rule list, allowedOwners, selfUserId and defaultPermission:
\* replacing the rule lists of the other resources changes neither allowed
\* nor ruleName.
C22_RuleListsIsolated ==
    IsSome(result) =>
        \A filler \in BOOLEAN :
           LET other == checkPermission(WithOtherLists(config, resource, filler),
                                        resource, operation, context)
           IN  /\ Get(result).allowed = other.allowed
               /\ Get(result).ruleName = other.ruleName

\* A request denied although another resource's list allows its operation name
C22_Witness ==
    /\ IsSome(result)
    /\ ~Get(result).allowed
    /\ OtherListNamesOperation
    /\ ~IsSome(checkAllowedOwners(config, resource, context))
    /\ resource = "issue"

\* ------------------------------------------------------------------
\* C23: the repos and owners conditions
\* ------------------------------------------------------------------

\* The condition specifies repos or owners
ScopedByRepo == NonEmptyList(condition.repos) \/ NonEmptyList(condition.owners)

\* The condition specifies nothing but repos and owners
OnlyScopedByRepo ==
    /\ ScopedByRepo
    /\ [condition EXCEPT !.repos = None, !.owners = None] = EmptyCondition

IsLink == cmd.family = "link"

\* The repository the second reference points to, once the repo is resolved
\* and the reference parsed
ChildRepo == ChildRef.value.repo

\* The second reference is well-formed and points to a repository whose owner
\* is not in the configured allowedOwners
ChildOwnerOutside ==
    /\ IsLink
    /\ NonEmptyList(config.allowedOwners)
    /\ IsSome(resolved)
    /\ ~ChildRef.threw
    /\ ~Includes(Get(config.allowedOwners), FirstSegment(ChildRepo))

NodeIdOrMutationIssued ==
    \E i \in 1..Len(calls) : calls[i].kind \in {"nodeIdParent", "nodeIdChild", "primary"}

NotOwnerPayload == Payload("error", "NOT_OWNER", None)

\* C24: a non-dry-run linking command whose second reference points to a
\* repository whose owner is outside allowedOwners ends with the NOT_OWNER
\* payload and exit status 1, and issues no node-id fetch and no mutation.
C24_NotOwnerAlways ==
    (ChildOwnerOutside /\ ~dryRun) =>
        /\ ~NodeIdOrMutationIssued
        /\ pc = "done" => (output = <<NotOwnerPayload>> /\ exitCode = Some(1))

\* C24 as amended: such an invocation ends with one error payload and exit
\* status 1, which is NOT_OWNER whenever the rules allowed the first issue,
\* and issues no node-id fetch and no mutation; the mutation of a linking
\* command never involves a repository whose owner is outside allowedOwners.
C24_ForeignOwnerNeverLinked ==
    /\ (ChildOwnerOutside /\ ~dryRun) =>
          /\ ~NodeIdOrMutationIssued
          /\ pc = "done" =>
                /\ Len(output) = 1
                /\ output[1].kind = "error"
                /\ exitCode = Some(1)
                /\ (IsSome(result) /\ Get(result).allowed) => output = <<NotOwnerPayload>>
    /\ (IsLink /\ NonEmptyList(config.allowedOwners) /\ NodeIdOrMutationIssued) =>
          /\ Includes(Get(config.allowedOwners), FirstSegment(Get(resolved)))
          /\ Includes(Get(config.allowedOwners), FirstSegment(ChildRepo))

\* C24 witness: a linking command in an allowed repository whose second
\* reference names a repository of another owner, ended by NOT_OWNER
C24_Witness ==
    /\ ChildOwnerOutside
    /\ ~dryRun
    /\ pc = "done"
    /\ IsSome(result) /\ Get(result).allowed
    /\ output = <<NotOwnerPayload>>
    /\ calls = <<Call("fetch", TRUE)>>

\* ------------------------------------------------------------------
\* C25: the Decision carries the enforce directive of the matched rule
\* ------------------------------------------------------------------

\* The rule list the command's engine call scans
EngineRules ==
    CASE cmd.family \in {"edit", "editEnforce"} -> config.issueEdit
      [] cmd.family = "create" -> config.issueCreate
      [] cmd.family = "link" -> LinkRules(config, cmd)
      [] OTHER -> getRulesForResource(config, cmd.resource)

UsesConditionsTs == cmd.family \in {"edit", "editEnforce", "create", "link"}

\* Rule i of the scanned list passes on the context of the command
PassesRule(i) ==
    \/ ~IsSome(EngineRules[i].condition)
    \/ checkIssueCondition(Get(EngineRules[i].condition), context, config.selfUserId) = "true"

\* Rule i is the first rule of the scanned list that passes
FirstPassingRule(i) ==
    /\ i \in 1..Len(EngineRules)
    /\ PassesRule(i)
    /\ \A j \in 1..(i - 1) : ~PassesRule(j)

\* C25: a Decision produced by a rule match carries the enforce directive of
\* the matched rule unchanged, which is the first rule that passes; a denying
\* Decision carries none, and the Decisions of permissions.ts (rule match,
\* default read, denial) have no enforce at all.
C25_EnforceOfMatchedRule ==
    IsSome(result) =>
        IF UsesConditionsTs
        THEN /\ ~Get(result).allowed => Get(result).enforce = None
             /\ Get(result).allowed =>
                   \E i \in 1..Len(EngineRules) :
                      /\ FirstPassingRule(i)
                      /\ Get(result).ruleName = EngineRules[i].name
                      /\ Get(result).enforce = EngineRules[i].enforce
        ELSE "enforce" \notin DOMAIN Get(result)

\* C25 witness: the second rule is the first that passes, and the Decision
\* carries its directive, which differs from the first rule's
C25_Witness ==
    /\ UsesConditionsTs
    /\ IsSome(result)
    /\ Get(result).allowed
    /\ Len(EngineRules) >= 2
    /\ FirstPassingRule(2)
    /\ IsSome(EngineRules[2].enforce)
    /\ EngineRules[1].enforce # EngineRules[2].enforce
    /\ Get(result).enforce = EngineRules[2].enforce

\* ------------------------------------------------------------------
\* C26: the parentIssue sub-condition
\* ------------------------------------------------------------------

HasParent == IsSome(context.parentIssueNumber)

\* The sub-condition's specified fields hold on the parent's data
ParentFieldsHold ==
    LET p == Get(condition.parentIssue)
    IN  /\ IsSome(p.number) => context.parentIssueNumber = p.number
        /\ p.assignee = "self" =>
              /\ Truthy(config.selfUserId)
              /\ config.selfUserId \in SetOf(OrEmpty(context.parentIssueAssignees))
        /\ (IsSome(p.labels) /\ NonEmptyList(Get(p.labels).include)) =>
              SetOf(Get(Get(p.labels).include))
                  \cap SetOf(OrEmpty(context.parentIssueLabels)) # {}
        /\ (IsSome(p.labels) /\ NonEmptyList(Get(p.labels).exclude)) =>
              SetOf(Get(Get(p.labels).exclude))
                  \cap SetOf(OrEmpty(context.parentIssueLabels)) = {}
        /\ IsSome(p.titlePrefix) =>
              /\ IsSome(context.parentIssueTitle)
              /\ StartsWith(Get(context.parentIssueTitle), Get(p.titlePrefix))

\* C26: a condition with a parentIssue sub-condition does not hold on any
\* context without parent issue, whatever the sub-condition's fields (an empty
\* sub-condition and one with only labels.exclude included); on a context
\* with a parent it holds iff all specified fields hold on the parent's data.
C26_ParentIssue ==
    (IsSome(met) /\ IsSome(condition.parentIssue)) =>
        /\ ~HasParent => Get(met) # "true"
        /\ HasParent => (Get(met) = "true" <=> ParentFieldsHold)
        /\ HasParent => Get(met) \in {"true", "false"}

\* ------------------------------------------------------------------
\* C27: the codes of the error payloads
\* ------------------------------------------------------------------

ErrorCodes ==
    {"PERMISSION_DENIED", "NOT_OWNER", "CONFIG_ERROR", "GH_CLI_ERROR",
     "VALIDATION_ERROR", "ENFORCE_ERROR", "GRAPHQL_ERROR", "UNKNOWN_ERROR"}

\* The step in which loadConfig throws: the command ends at its decision
\* without a Decision although the rule engine would have returned one
LoadConfigFails ==
    /\ pc = "decide"
    /\ pc' = "done"
    /\ result' = None
    /\ ~EngineCall.threw

\* The step in which the gh subprocess of a fetch or of the command exits
\* with an error
GhExecutionFails ==
    /\ Len(calls') = Len(calls) + 1
    /\ ~calls'[Len(calls')].ok
    /\ calls'[Len(calls')].kind # "enforce"

\* C27: every error payload printed has one of the eight codes of the
\* taxonomy; a missing or invalid config is reported as CONFIG_ERROR and a
\* failed gh execution as GH_CLI_ERROR.
C27_ErrorCodes ==
    [][output' # output =>
          LET printed == output'[Len(output')]
          IN  /\ printed.kind = "error" => printed.code \in ErrorCodes
              /\ LoadConfigFails => printed = Payload("error", "CONFIG_ERROR", None)
              /\ GhExecutionFails => printed = Payload("error", "GH_CLI_ERROR", None)]_vars

\* ------------------------------------------------------------------
\* C28: the external calls of one invocation
\* ------------------------------------------------------------------

\* The position of kind in order, 0 when it is not listed
PositionIn(order, kind) ==
    IF \E k \in 1..Len(order) : order[k] = kind
    THEN CHOOSE k \in 1..Len(order) : order[k] = kind
    ELSE 0

\* The calls issued so far are calls of the listed kinds, in the listed
\* order, each kind at most once; every call but the last returned
\* successfully, and a failed call ended the invocation
SequentialOnce(order) ==
    /\ \A i \in 1..Len(calls) : PositionIn(order, calls[i].kind) > 0
    /\ \A i, j \in 1..Len(calls) :
          i < j => PositionIn(order, calls[i].kind) < PositionIn(order, calls[j].kind)
    /\ \A i \in 1..Len(calls) : ~calls[i].ok => (i = Len(calls) /\ pc = "done")

\* C28: the external calls of an invocation are at most one context fetch,
\* then at most one primary execution call, then at most one enforcement
\* call, each issued only after the previous one returned successfully,
\* without retry and without any other external call.
C28_ThreeSequentialCalls ==
    SequentialOnce(<<"fetch", "primary", "enforce">>)

\* C28 as amended: the external calls are, in this order and each at most
\* once, the resolution of the default repository, the context fetch, the
\* two node-id fetches of a linking command, the primary execution call and
\* the enforcement call, each issued only after the previous one returned
\* successfully and without retry.
C28_SequentialCalls ==
    SequentialOnce(<<"resolveRepo", "fetch", "nodeIdParent", "nodeIdChild", "primary",
                     "enforce">>)

\* C28 witness: a linking command without -R that went through its five calls
C28_Witness ==
    /\ IsLink
    /\ pc = "done"
    /\ Len(calls) = 5
    /\ \A i \in 1..5 : calls[i].ok
    /\ calls[1].kind = "resolveRepo"
    /\ calls[5].kind = "primary"
    /\ output = <<Payload("success", Undef, None)>>

\* ------------------------------------------------------------------
\* C29: dry-run as a preview of the normal invocation
\* ------------------------------------------------------------------

\* The authorization error the command throws on its Decision when dry-run
\* is off, <<>> when it throws none
NormalRefusal ==
    IF IsLink
    THEN LinkRefusal(config, Get(result), ChildRepo, Get(resolved))
    ELSE IF ~Get(result).allowed THEN Some(ErrorResponse("PERMISSION_DENIED"))
    ELSE None

DryRunReported ==
    /\ dryRun
    /\ pc = "done"
    /\ IsSome(result)
    /\ Len(output) = 1
    /\ output[1].kind = "dryRun"

\* C29: a dry-run report with allowed=true means that the same invocation
\* without dry-run is refused by no authorization check (neither
\* PERMISSION_DENIED nor NOT_OWNER), and a report with allowed=false means
\* that it is refused.
C29_DryRunFaithful ==
    DryRunReported =>
        /\ output[1].allowed = Some(TRUE) => NormalRefusal = None
        /\ output[1].allowed = Some(FALSE) => NormalRefusal # None

\* ------------------------------------------------------------------
\* C30: input validation and the external calls
\* ------------------------------------------------------------------

\* The reference of the second issue is neither a positive integer nor
\* owner/repo#positive-integer (parseIssueRef throws whatever the default
\* repository is)
MalformedRef == IsLink /\ parseIssueRef(args.ref, RepoAX).threw

ValidationErrorPrinted ==
    \E i \in 1..Len(output) : output[i].code = "VALIDATION_ERROR"

\* C30: an invocation that reports VALIDATION_ERROR has started no gh
\* subprocess, and an invocation whose issue reference is malformed ends
\* with the VALIDATION_ERROR payload alone and exit 1, again without any gh
\* subprocess (repo resolution, context fetch, node-id fetch, mutation).
C30_ValidationFirst ==
    /\ ValidationErrorPrinted => calls = <<>>
    /\ (MalformedRef /\ pc = "done") =>
          /\ output = <<Payload("error", "VALIDATION_ERROR", None)>>
          /\ exitCode = Some(1)
          /\ calls = <<>>

====
